---- MODULE Spec2Model ----
(***************************************************************************)
(* A model of pop's project resolution engine: glob expansion with the     *)
(* mtime-validated glob cache, path-set reduction, display-name            *)
(* disambiguation and recency ranking.                                     *)
(*                                                                         *)
(* Go strings are byte strings.  A string is modelled as a sequence of     *)
(* one-byte elements ("/", "a", ...); "xFF" stands for the single byte     *)
(* 0xFF, which is not valid UTF-8, and "xEF","xBF","xBD" are the three     *)
(* bytes of U+FFFD.                                                        *)
(***************************************************************************)
EXTENDS Integers, Sequences, FiniteSets, TLC

VARIABLES
    config,     \* Config.Projects, as loaded from the config file
    fs,         \* the directory tree: node -> [kind, mtime]
    clock,      \* the filesystem clock (mtime source)
    diskCache,  \* the glob cache file
    result,     \* what the last ExpandProjectsWith call returned
    last,       \* trace of the last ExpandProjectsWith call
    stored,     \* the in-memory entries behind the entries of the cache file
    valid,      \* isCacheEntryValid applied to drawn inputs
    names,      \* DisambiguateNames applied to drawn inputs
    rank,       \* SortByRecencyWith applied to drawn inputs
    sess,       \* buildSessionAwareItemsWith applied to drawn inputs
    fan,        \* the worktree fan-out of runSelect
    race,       \* two invocations sharing the history and cache files
    sel,        \* one runSelect invocation and its file accesses
    red,        \* the path-set reduction applied to drawn inputs
    picker,     \* the Picker model of the item list
    bare        \* findBareRootWith on a drawn working directory

vars == <<config, fs, clock, diskCache, result, last, stored, valid, names, rank,
          sess, fan, race, sel, red, picker, bare>>

----------------------------------------------------------------------------
(* Bounds *)

MaxClock == 3

\* the largest mtime of a drawn filesystem or cache entry
MaxMtime == 1

\* the longest list handed to DisambiguateNames
MaxItems == 3

\* the latest reading of time.Now() in the history
MaxNow == 3

----------------------------------------------------------------------------
(* Byte strings *)

\* strings.HasPrefix(s, prefix)
HasPrefix(s, prefix) ==
    /\ Len(prefix) <= Len(s)
    /\ SubSeq(s, 1, Len(prefix)) = prefix

\* strings.Contains(s, sub)
Contains(s, sub) ==
    \E i \in 1..(Len(s) - Len(sub) + 1) : SubSeq(s, i, i + Len(sub) - 1) = sub

\* strings.Split(s, "/"): the pieces between the slashes, empty ones kept
RECURSIVE SplitFrom(_, _, _)
SplitFrom(s, i, cur) ==
    IF i > Len(s) THEN <<cur>>
    ELSE IF s[i] = "/" THEN <<cur>> \o SplitFrom(s, i + 1, <<>>)
    ELSE SplitFrom(s, i + 1, Append(cur, s[i]))

Split(s) == SplitFrom(s, 1, <<>>)

\* filepath.Join(dir, rel) for a clean dir and a clean relative path
Join(dir, rel) ==
    IF rel = <<>> \/ rel = <<".">> THEN dir
    ELSE IF dir = <<"/">> THEN dir \o rel
    ELSE dir \o <<"/">> \o rel

\* position of the last "/" in s, 0 when there is none
RECURSIVE LastSlash(_, _)
LastSlash(s, i) ==
    IF i = 0 THEN 0
    ELSE IF s[i] = "/" THEN i
    ELSE LastSlash(s, i - 1)

\* filepath.Dir(path) for a clean path
Dir(path) ==
    LET k == LastSlash(path, Len(path)) IN
    IF path = <<>> THEN <<".">>
    ELSE IF k = 0 THEN <<".">>
    ELSE IF k = 1 THEN <<"/">>
    ELSE SubSeq(path, 1, k - 1)

\* filepath.Base(path) for a clean path
Base(path) ==
    LET k == LastSlash(path, Len(path)) IN
    IF path = <<>> THEN <<".">>
    ELSE IF path = <<"/">> THEN <<"/">>
    ELSE SubSeq(path, k + 1, Len(path))

\* the elements of a sequence
Range(s) == {s[i] : i \in DOMAIN s}

\* a map with one key set
Put(m, k, v) == [x \in (DOMAIN m) \cup {k} |-> IF x = k THEN v ELSE m[x]]

\* a map with one key deleted
Del(m, k) == [x \in (DOMAIN m) \ {k} |-> m[x]]

EmptyMap == [x \in {} |-> 0]

----------------------------------------------------------------------------
(* The filesystem behind deps.FileSystem *)

R   == <<"/", "r">>
H   == <<"/", "h">>
RA  == <<"/", "r", "/", "a">>
RAB == <<"/", "r", "/", "a", "b">>
RX  == <<"/", "r", "/", "xFF">>
RAS == <<"/", "r", "/", "a", "/", "s">>

Nodes == {R, H, RA, RAB, RX, RAS}

\* where a symbolic link points
LinkTarget(n) == IF n = H THEN R ELSE RA

\* the names a directory of the tree can hold, in byte order (os.ReadDir sorts)
KidNames(dir) ==
    IF dir = R THEN << <<"a">>, <<"a", "b">>, <<"xFF">> >>
    ELSE IF dir = RA THEN << <<"s">> >>
    ELSE <<>>

Missing == [ok |-> FALSE, path |-> <<>>]

\* filepath.EvalSymlinks over the segments segs[i..] below the resolved cur
RECURSIVE WalkLinks(_, _, _, _)
WalkLinks(f, cur, segs, i) ==
    IF i > Len(segs) THEN [ok |-> TRUE, path |-> cur]
    ELSE
        LET nxt == Join(cur, segs[i]) IN
        IF cur # <<"/">> /\ f[cur].kind # "dir" THEN Missing
        ELSE IF nxt \notin Nodes THEN Missing
        ELSE IF f[nxt].kind = "none" THEN Missing
        ELSE IF f[nxt].kind = "link" THEN
            LET t == WalkLinks(f, <<"/">>, Tail(Split(LinkTarget(nxt))), 1) IN
            IF t.ok THEN WalkLinks(f, t.path, segs, i + 1) ELSE Missing
        ELSE WalkLinks(f, nxt, segs, i + 1)

\* FileSystem.EvalSymlinks(path): [ok, path]
EvalSymlinks(f, path) ==
    IF path = <<>> \/ path[1] # "/" THEN Missing
    ELSE WalkLinks(f, <<"/">>, Tail(Split(path)), 1)

\* FileSystem.Stat(path): follows links; [ok, isDir, mtime]
StatOf(f, r) ==
    IF ~r.ok THEN [ok |-> FALSE, isDir |-> FALSE, mtime |-> 0]
    ELSE [ok |-> TRUE, isDir |-> f[r.path].kind = "dir", mtime |-> f[r.path].mtime]

Stat(f, path) == StatOf(f, EvalSymlinks(f, path))

\* FileSystem.ReadDir(dir): [ok, names], the names sorted
RECURSIVE Present(_, _, _, _)
Present(f, dir, ns, i) ==
    IF i > Len(ns) THEN <<>>
    ELSE (IF f[Join(dir, ns[i])].kind # "none" THEN <<ns[i]>> ELSE <<>>)
         \o Present(f, dir, ns, i + 1)

ReadDirOf(f, r) ==
    IF r.ok /\ f[r.path].kind = "dir"
    THEN [ok |-> TRUE, names |-> Present(f, r.path, KidNames(r.path), 1)]
    ELSE [ok |-> FALSE, names |-> <<>>]

ReadDir(f, dir) == ReadDirOf(f, EvalSymlinks(f, dir))

----------------------------------------------------------------------------
(* doublestar: SplitPattern and Glob, as far as pop's patterns use them *)

IsMeta(c) == c \in {"*", "?", "[", "{"}

\* index of the first meta character at or after i, Len(p) + 1 when none
RECURSIVE FirstMeta(_, _)
FirstMeta(p, i) ==
    IF i > Len(p) THEN Len(p) + 1
    ELSE IF IsMeta(p[i]) THEN i
    ELSE FirstMeta(p, i + 1)

\* doublestar.SplitPattern(p): the base before the first meta character's
\* segment, and the pattern from there on
SplitPattern(p) ==
    LET k == LastSlash(p, FirstMeta(p, 1) - 1) IN
    IF k = 0 THEN [base |-> <<".">>, pat |-> p]
    ELSE IF k = 1 THEN [base |-> <<"/">>, pat |-> SubSeq(p, 2, Len(p))]
    ELSE [base |-> SubSeq(p, 1, k - 1), pat |-> SubSeq(p, k + 1, Len(p))]

\* doublestar.ValidatePattern: a character class must be closed
ValidatePattern(pat) == ~("[" \in Range(pat) /\ "]" \notin Range(pat))

\* one pattern segment against one file name ("*" or a literal segment)
MatchSeg(seg, name) == seg = <<"*">> \/ seg = name

\* path.Join(dir, fn) inside the fs.FS of the glob
RelJoin(dir, fn) == IF dir = <<".">> THEN fn ELSE dir \o <<"/">> \o fn

\* doublestar's globDir: the entries of base/dir that match seg; only the
\* last segment of a pattern may match something that is not a directory
RECURSIVE GlobNames(_, _, _, _, _, _, _)
GlobNames(f, base, dir, seg, canMatchFiles, ns, i) ==
    IF i > Len(ns) THEN <<>>
    ELSE
        LET fn == ns[i]
            keep == /\ MatchSeg(seg, fn)
                    /\ \/ canMatchFiles
                       \/ Stat(f, Join(Join(base, dir), fn)).isDir
        IN (IF keep THEN <<RelJoin(dir, fn)>> ELSE <<>>)
           \o GlobNames(f, base, dir, seg, canMatchFiles, ns, i + 1)

GlobRead(f, base, dir, seg, canMatchFiles, rd) ==
    IF rd.ok THEN GlobNames(f, base, dir, seg, canMatchFiles, rd.names, 1)
    ELSE <<>>

GlobDir(f, base, dir, seg, canMatchFiles) ==
    GlobRead(f, base, dir, seg, canMatchFiles, ReadDir(f, Join(base, dir)))

RECURSIVE GlobDirs(_, _, _, _, _, _)
GlobDirs(f, base, dirs, seg, canMatchFiles, j) ==
    IF j > Len(dirs) THEN <<>>
    ELSE GlobDir(f, base, dirs[j], seg, canMatchFiles)
         \o GlobDirs(f, base, dirs, seg, canMatchFiles, j + 1)

RECURSIVE GlobLevel(_, _, _, _, _)
GlobLevel(f, base, segs, i, dirs) ==
    IF i > Len(segs) THEN dirs
    ELSE GlobLevel(f, base, segs, i + 1,
                   GlobDirs(f, base, dirs, segs[i], i = Len(segs), 1))

\* doublestar.Glob(d.FS.DirFS(base), pat): [err, matches], matches relative
Glob(f, base, pat) ==
    IF ~ValidatePattern(pat) THEN [err |-> TRUE, matches |-> <<>>]
    ELSE [err |-> FALSE,
          matches |-> GlobLevel(f, base, Split(pat), 1, << <<".">> >>)]

----------------------------------------------------------------------------
(* config.go: expansion of the configured patterns *)

\* UserHomeDir(): the home directory is a symbolic link to /r
Home == H

\* Mutant: the configured value is used as it is
GetDisplayDepth_Raw(p) == p.DisplayDepth

\* ProjectEntry.GetDisplayDepth
GetDisplayDepth(p) == IF p.DisplayDepth <= 0 THEN 1 ELSE p.DisplayDepth

\* expandHomeWith
expandHomeWith(path) ==
    IF HasPrefix(path, <<"~", "/">>)
    THEN Join(Home, SubSeq(path, 3, Len(path)))
    ELSE path

RECURSIVE JoinAll(_, _, _)
JoinAll(base, ms, i) ==
    IF i > Len(ms) THEN <<>>
    ELSE <<Join(base, ms[i])>> \o JoinAll(base, ms, i + 1)

\* a path with its symlinks resolved, the path itself when that fails
ResolvedOr(r, path) == IF r.ok THEN r.path ELSE path

Resolved(f, path) == ResolvedOr(EvalSymlinks(f, path), path)

\* expandGlobWithBase after the glob: the matches joined onto the resolved base
Rebased(resolvedBase, g) ==
    IF g.err
    THEN [err |-> TRUE, matches |-> <<>>, resolvedBase |-> <<>>]
    ELSE [err |-> FALSE,
          matches |-> JoinAll(resolvedBase, g.matches, 1),
          resolvedBase |-> resolvedBase]

GlobWithBase(f, sp) == Rebased(Resolved(f, sp.base), Glob(f, sp.base, sp.pat))

\* expandGlobWithBase: [err, matches, resolvedBase]
expandGlobWithBase(f, pattern) == GlobWithBase(f, SplitPattern(pattern))

\* isDirectoryWith
IsDirInfo(info) == IF ~info.ok THEN FALSE ELSE info.isDir

isDirectoryWith(f, path) == IsDirInfo(Stat(f, path))

----------------------------------------------------------------------------
(* The glob cache *)

\* countWildcardDepth
RECURSIVE CountStars(_, _)
CountStars(segs, i) ==
    IF i > Len(segs) THEN 0
    ELSE (IF Contains(segs[i], <<"*">>) THEN 1 ELSE 0) + CountStars(segs, i + 1)

countWildcardDepth(pattern) == CountStars(Split(pattern), 1)

\* collectChildDirMtimes: the loop over the entries of dir from index i
RECURSIVE ChildLoop(_, _, _, _, _, _)
ChildRead(f, dir, remainingDepth, mtimes, rd) ==
    IF ~rd.ok THEN mtimes
    ELSE ChildLoop(f, dir, remainingDepth, mtimes, rd.names, 1)

collectChildDirMtimes(f, dir, remainingDepth, mtimes) ==
    IF remainingDepth <= 0 THEN mtimes
    ELSE ChildRead(f, dir, remainingDepth, mtimes, ReadDir(f, dir))

\* one entry of dir: skipped unless it is a directory, recorded, descended into
ChildStep(f, remainingDepth, mtimes, childPath, info) ==
    IF ~info.ok \/ ~info.isDir THEN mtimes
    ELSE IF remainingDepth > 1
    THEN collectChildDirMtimes(f, childPath, remainingDepth - 1,
                               Put(mtimes, childPath, info.mtime))
    ELSE Put(mtimes, childPath, info.mtime)

ChildLoop(f, dir, remainingDepth, mtimes, ns, i) ==
    IF i > Len(ns) THEN mtimes
    ELSE ChildLoop(f, dir, remainingDepth,
                   ChildStep(f, remainingDepth, mtimes, Join(dir, ns[i]),
                             Stat(f, Join(dir, ns[i]))),
                   ns, i + 1)

\* collectDirMtimes: the base directory's mtime if it can be stat'ed
BaseMtimes(resolvedBase, info) ==
    IF info.ok THEN Put(EmptyMap, resolvedBase, info.mtime) ELSE EmptyMap

CollectBelow(f, resolvedBase, depth, mtimes) ==
    IF depth > 1
    THEN collectChildDirMtimes(f, resolvedBase, depth - 1, mtimes)
    ELSE mtimes

\* collectDirMtimes
collectDirMtimes(f, resolvedBase, pattern) ==
    CollectBelow(f, resolvedBase, countWildcardDepth(pattern),
                 BaseMtimes(resolvedBase, Stat(f, resolvedBase)))

\* isCacheEntryValid: the range loop over entry.DirMtimes with its early returns
RECURSIVE ValidLoop(_, _, _)
ValidStep(f, dirMtimes, todo, dirPath, info) ==
    IF ~info.ok THEN FALSE
    ELSE IF info.mtime # dirMtimes[dirPath] THEN FALSE
    ELSE ValidLoop(f, dirMtimes, todo \ {dirPath})

ValidNext(f, dirMtimes, todo, dirPath) ==
    ValidStep(f, dirMtimes, todo, dirPath, Stat(f, dirPath))

ValidLoop(f, dirMtimes, todo) ==
    IF todo = {} THEN TRUE
    ELSE ValidNext(f, dirMtimes, todo, CHOOSE d \in todo : TRUE)

\* Mutant: only the existence of the recorded directories is checked
isCacheEntryValid_ExistsOnly(f, entry) ==
    \A d \in DOMAIN entry.DirMtimes : Stat(f, d).ok

\* Mutant: a recorded directory that cannot be stat'ed is skipped
isCacheEntryValid_SkipMissing(f, entry) ==
    \A d \in DOMAIN entry.DirMtimes :
        Stat(f, d).ok => Stat(f, d).mtime = entry.DirMtimes[d]

isCacheEntryValid(f, entry) == ValidLoop(f, entry.DirMtimes, DOMAIN entry.DirMtimes)

\* expandGlobCached after the glob: the entry is dropped on an error and
\* replaced otherwise; how tells a stale entry from a first expansion
\* Mutant: replacing a stale entry empties the cache of the other entries
StoreGlobbed_StaleAlone(f, pattern, cache, g) ==
    IF g.err
    THEN [matches |-> <<>>, updated |-> TRUE, err |-> TRUE,
          cache |-> [cache EXCEPT !.Entries = Del(@, pattern)],
          how |-> "error"]
    ELSE [matches |-> g.matches, updated |-> TRUE, err |-> FALSE,
          cache |-> [cache EXCEPT !.Entries =
                        Put(IF pattern \in DOMAIN cache.Entries THEN EmptyMap ELSE @,
                            pattern,
                            [BasePath |-> g.resolvedBase, Matches |-> g.matches,
                             DirMtimes |-> collectDirMtimes(f, g.resolvedBase,
                                               SplitPattern(pattern).pat)])],
          how |-> IF pattern \in DOMAIN cache.Entries THEN "stale" ELSE "miss"]

StoreGlobbed(f, pattern, cache, g) ==
    IF g.err
    THEN [matches |-> <<>>, updated |-> TRUE, err |-> TRUE,
          cache |-> [cache EXCEPT !.Entries = Del(@, pattern)],
          how |-> "error"]
    ELSE [matches |-> g.matches, updated |-> TRUE, err |-> FALSE,
          cache |-> [cache EXCEPT !.Entries =
                        Put(@, pattern,
                            [BasePath |-> g.resolvedBase, Matches |-> g.matches,
                             DirMtimes |-> collectDirMtimes(f, g.resolvedBase,
                                               SplitPattern(pattern).pat)])],
          how |-> IF pattern \in DOMAIN cache.Entries THEN "stale" ELSE "miss"]

\* expandGlobCached: [matches, updated, err, cache, how]
expandGlobCached(f, pattern, cache) ==
    IF pattern \in DOMAIN cache.Entries /\ isCacheEntryValid(f, cache.Entries[pattern])
    THEN [matches |-> cache.Entries[pattern].Matches, updated |-> FALSE,
          err |-> FALSE, cache |-> cache, how |-> "hit"]
    ELSE StoreGlobbed(f, pattern, cache, expandGlobWithBase(f, pattern))

----------------------------------------------------------------------------
(* The cache file: encoding/json of GlobCache *)

\* a Go string as a JSON string: every byte that is not valid UTF-8 is
\* written as U+FFFD
RECURSIVE JsonString(_)
JsonString(s) ==
    IF s = <<>> THEN <<>>
    ELSE (IF Head(s) = "xFF" THEN <<"xEF", "xBF", "xBD">> ELSE <<Head(s)>>)
         \o JsonString(Tail(s))

\* time.Time as RFC 3339 with nanoseconds, and back: the instant is kept
JsonTime(t) == t

JsonStrings(ss) == [i \in DOMAIN ss |-> JsonString(ss[i])]

JsonMtimes(m) ==
    [k \in {JsonString(d) : d \in DOMAIN m} |->
        JsonTime(m[CHOOSE d \in DOMAIN m : JsonString(d) = k])]

JsonEntry(e) ==
    [BasePath |-> JsonString(e.BasePath),
     Matches |-> JsonStrings(e.Matches),
     DirMtimes |-> JsonMtimes(e.DirMtimes)]

JsonEntries(es) ==
    [k \in {JsonString(p) : p \in DOMAIN es} |->
        JsonEntry(es[CHOOSE p \in DOMAIN es : JsonString(p) = k])]

NoFile == [state |-> "absent", Version |-> 0, Entries |-> EmptyMap]
Garbage == [state |-> "garbage", Version |-> 0, Entries |-> EmptyMap]

\* Mutant: the version of the file is not looked at
loadGlobCache_AnyVersion(file) ==
    IF file.state \in {"absent", "unreadable", "garbage"}
    THEN [Version |-> 1, Entries |-> EmptyMap]
    ELSE [Version |-> file.Version, Entries |-> file.Entries]

\* loadGlobCache: an empty cache on any error or on another version
loadGlobCache(file) ==
    IF file.state \in {"absent", "unreadable"}
    THEN [Version |-> 1, Entries |-> EmptyMap]
    ELSE IF file.state = "garbage" \/ file.Version # 1
    THEN [Version |-> 1, Entries |-> EmptyMap]
    ELSE [Version |-> file.Version, Entries |-> file.Entries]

\* saveGlobCache: MkdirAll, MarshalIndent, WriteFile; errors are ignored.
\* A WriteFile that fails leaves the file as it was or cut short.
saveGlobCache(file, cache, mkdirOK, write) ==
    IF ~mkdirOK THEN file
    ELSE IF write = "ok"
    THEN [state |-> "ok", Version |-> cache.Version,
          Entries |-> JsonEntries(cache.Entries)]
    ELSE IF write = "torn" THEN Garbage
    ELSE file

----------------------------------------------------------------------------
(* ExpandProjectsWith *)

\* Mutant: a single pass that compares each path with its successor only
Subsumed_Adjacent(paths) ==
    {paths[i].Path : i \in
        {i \in DOMAIN paths :
            /\ i + 1 \in DOMAIN paths
            /\ paths[i].Path # paths[i + 1].Path
            /\ HasPrefix(paths[i + 1].Path, paths[i].Path \o <<"/">>)}}

\* Mutant: a path is marked when another path starts with it, as a string
Subsumed_StringPrefix(paths) ==
    {paths[i].Path : i \in
        {i \in DOMAIN paths :
            \E j \in DOMAIN paths :
                /\ paths[i].Path # paths[j].Path
                /\ HasPrefix(paths[j].Path, paths[i].Path)}}

\* Mutant: the marking stops at the first path found subsumed
Subsumed_FirstFound(paths) ==
    {paths[i].Path : i \in
        {i \in DOMAIN paths :
            /\ \E j \in DOMAIN paths :
                  /\ paths[i].Path # paths[j].Path
                  /\ HasPrefix(paths[j].Path, paths[i].Path \o <<"/">>)
            /\ \A k \in 1..(i - 1) :
                  ~\E j \in DOMAIN paths :
                      /\ paths[k].Path # paths[j].Path
                      /\ HasPrefix(paths[j].Path, paths[k].Path \o <<"/">>)}}

\* removeSubsumedPaths: the paths marked in the first loop
Subsumed(paths) ==
    {paths[i].Path : i \in
        {i \in DOMAIN paths :
            \E j \in DOMAIN paths :
                /\ paths[i].Path # paths[j].Path
                /\ HasPrefix(paths[j].Path, paths[i].Path \o <<"/">>)}}

RECURSIVE KeepUnmarked(_, _, _)
KeepUnmarked(paths, marked, i) ==
    IF i > Len(paths) THEN <<>>
    ELSE (IF paths[i].Path \notin marked THEN <<paths[i]>> ELSE <<>>)
         \o KeepUnmarked(paths, marked, i + 1)

\* removeSubsumedPaths
removeSubsumedPaths(paths) == KeepUnmarked(paths, Subsumed(paths), 1)

\* Mutant: a candidate is trusted without the stat
addProject_NoStat(f, st, path, displayDepth) ==
    IF path \notin st.seen
    THEN [st EXCEPT !.seen = @ \cup {path},
                    !.projects = Append(@, [Path |-> path,
                                            DisplayDepth |-> displayDepth])]
    ELSE st

\* Mutant: a candidate is added without the seen-set lookup
addProject_NoSeen(f, st, path, displayDepth) ==
    IF isDirectoryWith(f, path)
    THEN [st EXCEPT !.seen = @ \cup {path},
                    !.projects = Append(@, [Path |-> path,
                                            DisplayDepth |-> displayDepth])]
    ELSE st

\* Mutant: a path seen before takes the display depth of its last occurrence
addProject_LastWins(f, st, path, displayDepth) ==
    IF ~isDirectoryWith(f, path) THEN st
    ELSE IF path \in st.seen
    THEN [st EXCEPT !.projects =
             [k \in DOMAIN @ |->
                 IF @[k].Path = path
                 THEN [Path |-> path, DisplayDepth |-> displayDepth]
                 ELSE @[k]]]
    ELSE [st EXCEPT !.seen = @ \cup {path},
                    !.projects = Append(@, [Path |-> path,
                                            DisplayDepth |-> displayDepth])]

\* the addProject closure of ExpandProjectsWith
addProject(f, st, path, displayDepth) ==
    IF path \notin st.seen /\ isDirectoryWith(f, path)
    THEN [st EXCEPT !.seen = @ \cup {path},
                    !.projects = Append(@, [Path |-> path,
                                            DisplayDepth |-> displayDepth])]
    ELSE st

RECURSIVE AddMatches(_, _, _, _, _)
AddMatches(f, st, matches, displayDepth, j) ==
    IF j > Len(matches) THEN st
    ELSE AddMatches(f, addProject(f, st, matches[j], displayDepth),
                    matches, displayDepth, j + 1)

\* the state with one more record of what an entry expanded to
Traced(st, how, pattern, matches) ==
    [st EXCEPT !.trace = Append(@, [how |-> how, pattern |-> pattern,
                                    matches |-> matches])]

\* a glob entry, given what expandGlobCached returned
ExpandGlobEntry(f, st, expanded, displayDepth, g) ==
    IF g.err
    THEN Traced([st EXCEPT !.cache = g.cache, !.cacheModified = @ \/ g.updated],
                g.how, expanded, g.matches)
    ELSE AddMatches(f,
             Traced([st EXCEPT !.cache = g.cache, !.cacheModified = @ \/ g.updated],
                    g.how, expanded, g.matches),
             g.matches, displayDepth, 1)

\* an exact entry, given its resolved path
ExpandExactEntry(f, st, expanded, displayDepth, resolved) ==
    addProject(f, Traced(st, "exact", expanded, <<resolved>>), resolved, displayDepth)

ExpandPattern(f, st, expanded, displayDepth) ==
    IF Contains(expanded, <<"*", "*">>)
    THEN Traced(st, "skip", expanded, <<>>)
    ELSE IF Contains(expanded, <<"*">>)
    THEN ExpandGlobEntry(f, st, expanded, displayDepth,
                         expandGlobCached(f, expanded, st.cache))
    ELSE ExpandExactEntry(f, st, expanded, displayDepth, Resolved(f, expanded))

\* one iteration of the loop over c.Projects
ExpandEntry(f, st, entry) ==
    ExpandPattern(f, st, expandHomeWith(entry.Path), GetDisplayDepth(entry))

\* Mutant: a pattern with ** ends the loop over c.Projects
RECURSIVE ExpandLoop_StopAtSkip(_, _, _, _)
ExpandLoop_StopAtSkip(f, cfg, i, st) ==
    IF i > Len(cfg) THEN st
    ELSE IF Contains(expandHomeWith(cfg[i].Path), <<"*", "*">>)
    THEN Traced(st, "skip", expandHomeWith(cfg[i].Path), <<>>)
    ELSE ExpandLoop_StopAtSkip(f, cfg, i + 1, ExpandEntry(f, st, cfg[i]))

RECURSIVE ExpandLoop(_, _, _, _)
ExpandLoop(f, cfg, i, st) ==
    IF i > Len(cfg) THEN st
    ELSE ExpandLoop(f, cfg, i + 1, ExpandEntry(f, st, cfg[i]))

\* ExpandProjectsWith up to the save: [cache, cacheModified, projects, seen, trace]
ExpandRun(f, file, cfg) ==
    ExpandLoop(f, cfg, 1,
               [cache |-> loadGlobCache(file), cacheModified |-> FALSE,
                projects |-> <<>>, seen |-> {}, trace |-> <<>>])

----------------------------------------------------------------------------
(* The configurations and the environment *)

Entry(path, depth) == [Path |-> path, DisplayDepth |-> depth]

PHome  == <<"~", "/", "*">>
PStar  == <<"/", "r", "/", "*">>
PStar2 == <<"/", "r", "/", "*", "/", "*">>
PStarS == <<"/", "r", "/", "*", "/", "s">>
PSub   == <<"/", "r", "/", "a", "/", "*">>
PBad   == <<"/", "r", "/", "[", "*">>
PRec   == <<"/", "r", "/", "*", "*">>

Configs ==
    { << Entry(PStar, 0) >>,
      << Entry(PHome, 0), Entry(PStar, 2) >>,
      << Entry(PStar2, 2) >>,
      << Entry(PStarS, 0) >>,
      << Entry(PSub, 0), Entry(RA, 0) >>,
      << Entry(R, 0), Entry(PStar, 0), Entry(PStarS, 0) >>,
      << Entry(RAB, 0), Entry(RA, 3) >>,
      << Entry(PRec, 0), Entry(PBad, 0), Entry(PStar, 1) >> }

\* the kinds of file a node of the tree can be
Kinds(n) ==
    IF n = RA THEN {"dir", "file"}
    ELSE IF n = RAB THEN {"dir", "link"}
    ELSE IF n \in {RX, RAS} THEN {"dir"}
    ELSE {}

NoTrace == [trace |-> <<>>, current |-> FALSE, bit |-> 0, saved |-> "none",
            err |-> FALSE]

InitExpand ==
    /\ config \in Configs
    /\ fs = [n \in Nodes |->
                IF n = R THEN [kind |-> "dir", mtime |-> 0]
                ELSE IF n = H THEN [kind |-> "link", mtime |-> 0]
                ELSE [kind |-> "none", mtime |-> 0]]
    /\ clock = 0
    /\ diskCache = NoFile
    /\ result = <<>>
    /\ last = NoTrace
    /\ stored = EmptyMap

Idle == <<0>>

Init ==
    /\ InitExpand
    /\ valid = Idle
    /\ names = Idle
    /\ rank = Idle
    /\ sess = Idle /\ fan = Idle /\ race = Idle /\ sel = Idle /\ red = Idle
    /\ picker = Idle /\ bare = Idle

\* another process creates a directory, a file or a link: the parent
\* directory's mtime becomes the time of the change
Create(n, kind) ==
    /\ clock < MaxClock
    /\ fs[n].kind = "none"
    /\ fs[Dir(n)].kind = "dir"
    /\ clock' = clock + 1
    /\ fs' = [fs EXCEPT ![n] = [kind |-> kind,
                                mtime |-> IF kind = "dir" THEN clock + 1 ELSE 0],
                        ![Dir(n)].mtime = clock + 1]
    /\ last' = [last EXCEPT !.current = FALSE]
    /\ UNCHANGED <<config, diskCache, result, stored, valid, names, rank, sess, fan, race, sel, red, picker, bare>>

\* another process removes a file, a link or an empty directory
Remove(n) ==
    /\ clock < MaxClock
    /\ fs[n].kind # "none"
    /\ \A k \in Nodes : Dir(k) = n => fs[k].kind = "none"
    /\ clock' = clock + 1
    /\ fs' = [fs EXCEPT ![n] = [kind |-> "none", mtime |-> 0],
                        ![Dir(n)].mtime = clock + 1]
    /\ last' = [last EXCEPT !.current = FALSE]
    /\ UNCHANGED <<config, diskCache, result, stored, valid, names, rank, sess, fan, race, sel, red, picker, bare>>

\* the cache file is replaced by something pop did not write
Tamper(file) ==
    /\ diskCache.state = "ok"
    /\ diskCache' = file
    /\ stored' = EmptyMap
    /\ UNCHANGED <<config, fs, clock, result, last, valid, names, rank, sess, fan, race, sel, red, picker, bare>>

\* the entries stored by this run, and those of earlier runs still in the file
StoredAfter(run) ==
    [p \in DOMAIN run.cache.Entries |->
        IF \E i \in DOMAIN run.trace :
              run.trace[i].pattern = p /\ run.trace[i].how \in {"miss", "stale"}
        THEN run.cache.Entries[p]
        ELSE IF p \in DOMAIN stored THEN stored[p]
        ELSE run.cache.Entries[p]]

\* what became of the save: not attempted, done, failed, or cut short
SaveOutcome(cacheModified, mkdirOK, write) ==
    IF ~cacheModified THEN "none"
    ELSE IF ~mkdirOK THEN "fail"
    ELSE write

\* Mutant: a save that did not succeed is reported and no list is returned
Returned_SaveChecked(projects, saved) ==
    IF saved \in {"fail", "torn"}
    THEN [projects |-> <<>>, err |-> TRUE]
    ELSE [projects |-> removeSubsumedPaths(projects), err |-> FALSE]

\* the return statement of ExpandProjectsWith: saveGlobCache returns nothing,
\* the list is the reduced one and the error is nil
Returned(projects, saved) ==
    [projects |-> removeSubsumedPaths(projects), err |-> FALSE]

\* one call of Config.ExpandProjectsWith
Expand ==
    \E run \in {ExpandRun(fs, diskCache, config)} :
    \E mkdirOK \in BOOLEAN : \E write \in {"ok", "fail", "torn"} :
    \E ret \in {Returned(run.projects,
                         SaveOutcome(run.cacheModified, mkdirOK, write))} :
       /\ diskCache' = IF run.cacheModified
                       THEN saveGlobCache(diskCache, run.cache, mkdirOK, write)
                       ELSE diskCache
       /\ result' = ret.projects
       /\ last' = [trace |-> run.trace, current |-> TRUE, bit |-> 1 - last.bit,
                   saved |-> SaveOutcome(run.cacheModified, mkdirOK, write),
                   err |-> ret.err]
       /\ stored' = IF ~run.cacheModified THEN stored
                    ELSE IF mkdirOK /\ write = "ok" THEN StoredAfter(run)
                    ELSE IF mkdirOK /\ write = "torn" THEN EmptyMap
                    ELSE stored
       /\ UNCHANGED <<config, fs, clock, valid, names, rank, sess, fan, race, sel, red, picker, bare>>

Next ==
    \/ \E n \in Nodes : \E k \in Kinds(n) : Create(n, k)
    \/ \E n \in Nodes : Kinds(n) # {} /\ Remove(n)
    \/ \E file \in {Garbage, [state |-> "ok", Version |-> 2, Entries |-> EmptyMap]} :
          Tamper(file)
    \/ Expand

Spec == Init /\ [][Next]_vars

----------------------------------------------------------------------------
(* Claims about ExpandProjectsWith (specification Spec) *)

ResultPaths == {result[i].Path : i \in DOMAIN result}

\* an ExpandProjectsWith step
ExpandStep == last'.bit # last.bit

\* the index of the first entry of the trace that names pattern p
FirstOf(trace, i) ==
    \A j \in 1..(i - 1) : trace[j].pattern # trace[i].pattern

\* the entries of the trace that went through expandGlobCached
IsGlobbed(t) == t.how \in {"hit", "miss", "stale"}

\* C1: the list returned by ExpandProjectsWith holds no two distinct paths P
\* and Q such that Q starts with P + "/", whatever the number of levels.
C1_NoSubsumption ==
    \A i \in DOMAIN result : \A j \in DOMAIN result :
        result[i].Path # result[j].Path
            => ~HasPrefix(result[j].Path, result[i].Path \o <<"/">>)

\* /r, /r/a and /r/a/s were all candidates and only /r/a/s of them is returned
C1_Witness ==
    /\ last.current
    /\ config = << Entry(R, 0), Entry(PStar, 0), Entry(PStarS, 0) >>
    /\ fs[RAS].kind = "dir"
    /\ RAS \in ResultPaths
    /\ R \notin ResultPaths /\ RA \notin ResultPaths

\* C3: an invocation that uses the cache left by earlier invocations returns
\* the same list as an invocation on the same filesystem with an empty cache
\* (stated for filesystems whose entry names are valid UTF-8, which the cache
\* file stores without loss).
C3_CacheIsTransparent ==
    (last.current /\ fs[RX].kind = "none") =>
        result = removeSubsumedPaths(ExpandRun(fs, NoFile, config).projects)

\* C4 as claimed: a cached entry whose recorded base mtime T1 differs from the
\* base directory's mtime T2 is a miss, and the new entry with
\* dirMtimes[base] = T2 is in the cache file afterwards.
C4_StaleEntryPersisted ==
    [][ExpandStep =>
        \A c \in {loadGlobCache(diskCache)} :
        \A i \in DOMAIN last'.trace :
        \A p \in {last'.trace[i].pattern} :
            (/\ IsGlobbed(last'.trace[i]) /\ FirstOf(last'.trace, i)
             /\ p \in DOMAIN c.Entries
             /\ c.Entries[p].BasePath \in DOMAIN c.Entries[p].DirMtimes
             /\ Stat(fs, c.Entries[p].BasePath).ok
             /\ Stat(fs, c.Entries[p].BasePath).mtime
                    # c.Entries[p].DirMtimes[c.Entries[p].BasePath])
            => /\ last'.trace[i].how = "stale"
               /\ diskCache'.state = "ok"
               /\ p \in DOMAIN diskCache'.Entries
               /\ c.Entries[p].BasePath \in DOMAIN diskCache'.Entries[p].DirMtimes
               /\ diskCache'.Entries[p].DirMtimes[c.Entries[p].BasePath]
                      = Stat(fs, c.Entries[p].BasePath).mtime
    ]_vars

\* C4 amended: the resolution is a miss that re-globs and hands the new entry
\* to saveGlobCache; the file holds it when the write succeeds.
C4_StaleEntryReplaced ==
    [][ExpandStep =>
        \A c \in {loadGlobCache(diskCache)} :
        \A i \in DOMAIN last'.trace :
        \A p \in {last'.trace[i].pattern} :
            (/\ IsGlobbed(last'.trace[i]) /\ FirstOf(last'.trace, i)
             /\ p \in DOMAIN c.Entries
             /\ c.Entries[p].BasePath \in DOMAIN c.Entries[p].DirMtimes
             /\ Stat(fs, c.Entries[p].BasePath).ok
             /\ Stat(fs, c.Entries[p].BasePath).mtime
                    # c.Entries[p].DirMtimes[c.Entries[p].BasePath])
            => /\ last'.trace[i].how = "stale"
               /\ last'.saved # "none"
               /\ last'.saved = "ok" =>
                    /\ diskCache'.state = "ok"
                    /\ p \in DOMAIN diskCache'.Entries
                    /\ c.Entries[p].BasePath
                           \in DOMAIN diskCache'.Entries[p].DirMtimes
                    /\ diskCache'.Entries[p].DirMtimes[c.Entries[p].BasePath]
                           = Stat(fs, c.Entries[p].BasePath).mtime
    ]_vars

\* the last run found a cached entry stale, re-globbed and wrote the new entry
C4_Witness ==
    /\ last.current
    /\ last.saved = "ok"
    /\ \E i \in DOMAIN last.trace :
        /\ last.trace[i].how = "stale"
        /\ last.trace[i].pattern = PStar
        /\ diskCache.Entries[PStar].DirMtimes[R] = fs[R].mtime
        /\ fs[R].mtime > 0

\* C6: an entry that one invocation stored and persisted, with every recorded
\* directory's mtime unchanged, is a cache hit at the next invocation, which
\* uses exactly the stored matches.
C6_RoundTrip ==
    [][ExpandStep =>
        \A i \in DOMAIN last'.trace :
        \A p \in {last'.trace[i].pattern} :
            (/\ IsGlobbed(last'.trace[i]) /\ FirstOf(last'.trace, i)
             /\ p \in DOMAIN stored
             /\ \A d \in DOMAIN stored[p].DirMtimes :
                    /\ Stat(fs, d).ok
                    /\ Stat(fs, d).mtime = stored[p].DirMtimes[d])
            => /\ last'.trace[i].how = "hit"
               /\ last'.trace[i].matches = stored[p].Matches
    ]_vars

\* C7: every returned path is a directory by a stat of the same invocation,
\* also when it came from a valid cache entry.
C7_FreshStat ==
    last.current => \A i \in DOMAIN result : isDirectoryWith(fs, result[i].Path)

\* a cache hit whose cached match /r/a/s is gone, and is not returned
C7_Witness ==
    /\ last.current
    /\ fs[RAS].kind = "none"
    /\ RAS \notin ResultPaths
    /\ \E i \in DOMAIN last.trace :
        /\ last.trace[i].how = "hit"
        /\ RAS \in Range(last.trace[i].matches)

\* the canonical path of a returned path
Canonical(path) == EvalSymlinks(fs, path).path

RECURSIVE CandidatesFrom(_, _)
CandidatesFrom(trace, i) ==
    IF i > Len(trace) THEN <<>>
    ELSE (IF trace[i].how \in {"hit", "miss", "stale", "exact"}
          THEN trace[i].matches ELSE <<>>)
         \o CandidatesFrom(trace, i + 1)

----------------------------------------------------------------------------
(* isCacheEntryValid on drawn inputs (specification SpecValid) *)

\* the directories a drawn entry can record
ValidDirs == {R, RA, RAB}

\* the drawn filesystems: /r is a directory, /r/a and /r/ab are anything
FsShapes ==
    { [n \in Nodes |->
          IF n = R THEN [kind |-> "dir", mtime |-> r]
          ELSE IF n = H THEN [kind |-> "link", mtime |-> 0]
          ELSE IF n = RA THEN a
          ELSE IF n = RAB THEN b
          ELSE [kind |-> "none", mtime |-> 0]] :
      r \in 0..MaxMtime,
      a \in {[kind |-> "none", mtime |-> 0]}
            \cup [kind : {"dir", "file"}, mtime : 0..MaxMtime],
      b \in {[kind |-> "none", mtime |-> 0], [kind |-> "link", mtime |-> 0]}
            \cup [kind : {"dir"}, mtime : 0..MaxMtime] }

\* the drawn cache entries: any recorded mtimes for any of the directories
DrawnEntries ==
    { [BasePath |-> R, Matches |-> <<>>, DirMtimes |-> m] :
      m \in UNION { [D -> 0..MaxMtime] : D \in SUBSET ValidDirs } }

InitValid ==
    /\ fs \in FsShapes
    /\ valid \in [entry : DrawnEntries, out : {"unset"}]
    /\ config = <<>> /\ clock = 0 /\ diskCache = NoFile /\ result = <<>>
    /\ last = NoTrace /\ stored = EmptyMap
    /\ names = Idle /\ rank = Idle
    /\ sess = Idle /\ fan = Idle /\ race = Idle /\ sel = Idle /\ red = Idle
    /\ picker = Idle /\ bare = Idle

\* one call of isCacheEntryValid
CheckValid ==
    /\ valid.out = "unset"
    /\ valid' = [valid EXCEPT !.out = IF isCacheEntryValid(fs, valid.entry)
                                      THEN "valid" ELSE "invalid"]
    /\ UNCHANGED <<config, fs, clock, diskCache, result, last, stored, names, rank, sess, fan, race, sel, red, picker, bare>>

NextValid == CheckValid

SpecValid == InitValid /\ [][NextValid]_vars

\* C5: isCacheEntryValid returns true exactly when every recorded directory
\* stats successfully with an mtime equal to the recorded one; a missing
\* directory or a different mtime gives false, an empty map gives true.
C5_ValidExactly ==
    valid.out # "unset" =>
        /\ valid.out = "valid" <=>
               \A d \in DOMAIN valid.entry.DirMtimes :
                   /\ Stat(fs, d).ok
                   /\ Stat(fs, d).mtime = valid.entry.DirMtimes[d]
        /\ (\E d \in DOMAIN valid.entry.DirMtimes : ~Stat(fs, d).ok)
               => valid.out = "invalid"
        /\ (\E d \in DOMAIN valid.entry.DirMtimes :
               Stat(fs, d).ok /\ Stat(fs, d).mtime # valid.entry.DirMtimes[d])
               => valid.out = "invalid"
        /\ DOMAIN valid.entry.DirMtimes = {} => valid.out = "valid"

\* an entry found invalid only because a recorded directory is missing
C5_Witness ==
    /\ valid.out = "invalid"
    /\ Cardinality(DOMAIN valid.entry.DirMtimes) >= 2
    /\ \E d \in DOMAIN valid.entry.DirMtimes : ~Stat(fs, d).ok
    /\ \A d \in DOMAIN valid.entry.DirMtimes :
           Stat(fs, d).ok => Stat(fs, d).mtime = valid.entry.DirMtimes[d]

----------------------------------------------------------------------------
(* Display names: ui.LastNSegments and project.DisambiguateNames *)

\* ui.LastNSegments: the loop that prepends parent segments
RECURSIVE LastNLoop(_, _, _, _)
LastNLoop(res, dir, i, n) ==
    IF i >= n \/ Dir(dir) = dir THEN res
    ELSE LastNLoop(Base(dir) \o <<"/">> \o res, Dir(dir), i + 1, n)

\* ui.LastNSegments(path, n)
LastNSegments(path, n) ==
    IF n <= 1 THEN Base(path)
    ELSE LastNLoop(Base(path), Dir(path), 1, n)

\* filepath.Dir applied n times
RECURSIVE DirTimes(_, _)
DirTimes(path, n) == IF n = 0 THEN path ELSE DirTimes(Dir(path), n - 1)

\* parentDir(path, name)
parentDir(path, name) == DirTimes(path, Len(Split(name)))

\* splitParentSegments(dir): the segments of dir, innermost first
RECURSIVE splitParentSegments(_)
splitParentSegments(dir) ==
    IF dir = <<"/">> \/ dir = <<".">> \/ dir = <<>> THEN <<>>
    ELSE <<Base(dir)>> \o (IF Dir(dir) = dir THEN <<>>
                           ELSE splitParentSegments(Dir(dir)))

\* the infos of a collision group: position in the group -> segments
GroupSegments(items, indices) ==
    [j \in DOMAIN indices |->
        splitParentSegments(parentDir(items[indices[j]].Path,
                                      items[indices[j]].Name))]

\* maxLevels of a collision group
MaxLevels(segs) ==
    IF DOMAIN segs = {} THEN 0
    ELSE CHOOSE m \in {Len(segs[j]) : j \in DOMAIN segs} :
             \A j \in DOMAIN segs : Len(segs[j]) <= m

\* Mutant: the segments of one level are counted among all the members
LevelCount_AllMembers(segs, resolved, level, seg) ==
    Cardinality({i \in DOMAIN segs : /\ level < Len(segs[i])
                                     /\ segs[i][level + 1] = seg})

\* counts[seg] of one level among the unresolved members
LevelCount(segs, resolved, level, seg) ==
    Cardinality({i \in DOMAIN segs : /\ i \notin resolved
                                     /\ level < Len(segs[i])
                                     /\ segs[i][level + 1] = seg})

\* Name += " (" + d + ")"
Parenthesised(name, d) == name \o <<" ", "(">> \o d \o <<")">>

\* disambiguateGroup, phase 1: [items, resolved] after the levels from level on
RECURSIVE Phase1(_, _, _, _, _)
Phase1(items, indices, segs, level, resolved) ==
    IF ~(level < MaxLevels(segs) /\ Cardinality(resolved) < Len(indices))
    THEN [items |-> items, resolved |-> resolved]
    ELSE
        LET now == {i \in DOMAIN segs :
                       /\ i \notin resolved
                       /\ level < Len(segs[i])
                       /\ LevelCount(segs, resolved, level, segs[i][level + 1]) = 1}
            pos(k) == CHOOSE i \in DOMAIN indices : indices[i] = k
            renamed == [k \in DOMAIN items |->
                IF \E i \in now : indices[i] = k
                THEN [items[k] EXCEPT !.Name =
                         Parenthesised(@, segs[pos(k)][level + 1])]
                ELSE items[k]]
        IN Phase1(renamed, indices, segs, level + 1, resolved \cup now)

\* Mutant: the segment of a level is put behind the compound built so far
RECURSIVE Phase2_Appending(_, _, _, _)
Phase2_Appending(segs, resolved, level, disambigs) ==
    IF ~(level < MaxLevels(segs)) THEN disambigs
    ELSE
        LET open == (DOMAIN segs) \ resolved
            grown == [i \in DOMAIN segs |->
                IF i \in open /\ level < Len(segs[i])
                THEN IF disambigs[i] = <<>> THEN segs[i][level + 1]
                     ELSE disambigs[i] \o <<"/">> \o segs[i][level + 1]
                ELSE disambigs[i]]
            allExhausted == \A i \in open : ~(level < Len(segs[i]))
            allUnique == \A i \in open : \A j \in open :
                             i # j => grown[i] # grown[j]
        IN IF allExhausted \/ allUnique THEN grown
           ELSE Phase2_Appending(segs, resolved, level + 1, grown)

\* disambiguateGroup, phase 2: the compound disambiguators after the levels
\* from level on
RECURSIVE Phase2(_, _, _, _)
Phase2(segs, resolved, level, disambigs) ==
    IF ~(level < MaxLevels(segs)) THEN disambigs
    ELSE
        LET open == (DOMAIN segs) \ resolved
            grown == [i \in DOMAIN segs |->
                IF i \in open /\ level < Len(segs[i])
                THEN IF disambigs[i] = <<>> THEN segs[i][level + 1]
                     ELSE segs[i][level + 1] \o <<"/">> \o disambigs[i]
                ELSE disambigs[i]]
            allExhausted == \A i \in open : ~(level < Len(segs[i]))
            allUnique == \A i \in open : \A j \in open :
                             i # j => grown[i] # grown[j]
        IN IF allExhausted \/ allUnique THEN grown
           ELSE Phase2(segs, resolved, level + 1, grown)

\* disambiguateGroup(items, indices)
disambiguateGroup(items, indices) ==
    LET segs == GroupSegments(items, indices)
        p1 == Phase1(items, indices, segs, 0, {})
        disambigs == Phase2(segs, p1.resolved, 0, [i \in DOMAIN segs |-> <<>>])
        pos(k) == CHOOSE i \in DOMAIN indices : indices[i] = k
    IN IF Cardinality(p1.resolved) < Len(indices)
       THEN [k \in DOMAIN items |->
                IF /\ \E i \in DOMAIN indices : indices[i] = k
                   /\ pos(k) \notin p1.resolved
                   /\ disambigs[pos(k)] # <<>>
                THEN [p1.items[k] EXCEPT !.Name =
                         Parenthesised(@, disambigs[pos(k)])]
                ELSE p1.items[k]]
       ELSE p1.items

\* Mutant: every level is applied, whether the names are unique or not
RECURSIVE FullPathLoop_AllLevels(_, _, _, _)
FullPathLoop_AllLevels(items, indices, segs, level) ==
    IF ~(level < MaxLevels(segs)) THEN items
    ELSE
        LET pos(k) == CHOOSE i \in DOMAIN indices : indices[i] = k
            grown == [k \in DOMAIN items |->
                IF /\ \E i \in DOMAIN indices : indices[i] = k
                   /\ level < Len(segs[pos(k)])
                THEN [items[k] EXCEPT !.Name =
                         segs[pos(k)][level + 1] \o <<"/">> \o @]
                ELSE items[k]]
        IN FullPathLoop_AllLevels(grown, indices, segs, level + 1)

\* disambiguateGroupFullPath: the items after the levels from level on
RECURSIVE FullPathLoop(_, _, _, _)
FullPathLoop(items, indices, segs, level) ==
    IF ~(level < MaxLevels(segs)) THEN items
    ELSE
        LET pos(k) == CHOOSE i \in DOMAIN indices : indices[i] = k
            grown == [k \in DOMAIN items |->
                IF /\ \E i \in DOMAIN indices : indices[i] = k
                   /\ level < Len(segs[pos(k)])
                THEN [items[k] EXCEPT !.Name =
                         segs[pos(k)][level + 1] \o <<"/">> \o @]
                ELSE items[k]]
            allUnique == \A i \in DOMAIN indices : \A j \in DOMAIN indices :
                             i # j => grown[indices[i]].Name # grown[indices[j]].Name
        IN IF allUnique THEN grown
           ELSE FullPathLoop(grown, indices, segs, level + 1)

\* disambiguateGroupFullPath(items, indices)
disambiguateGroupFullPath(items, indices) ==
    FullPathLoop(items, indices, GroupSegments(items, indices), 0)

\* the ascending sequence of the elements of a set of indices
RECURSIVE Ascending(_)
Ascending(S) ==
    IF S = {} THEN <<>>
    ELSE LET m == CHOOSE x \in S : \A y \in S : x <= y
         IN <<m>> \o Ascending(S \ {m})

\* groups[name] of DisambiguateNames
GroupOf(items, name) == Ascending({i \in DOMAIN items : items[i].Name = name})

\* the keys of groups
GroupNames(items) == {items[i].Name : i \in DOMAIN items}

\* the orders in which a range over a map can visit its keys
Orders(S) ==
    {o \in [1..Cardinality(S) -> S] :
        \A i \in DOMAIN o : \A j \in DOMAIN o : i # j => o[i] # o[j]}

\* Mutant: the members of a group are looked up again when its turn comes
RECURSIVE GroupLoop_Regroup(_, _, _, _, _)
GroupLoop_Regroup(items, groups, strategy, order, k) ==
    IF k > Len(order) THEN items
    ELSE
        LET indices == GroupOf(items, order[k])
            after == IF Len(indices) <= 1 THEN items
                     ELSE IF strategy = "full_path"
                     THEN disambiguateGroupFullPath(items, indices)
                     ELSE disambiguateGroup(items, indices)
        IN GroupLoop_Regroup(after, groups, strategy, order, k + 1)

\* DisambiguateNames: the loop over the groups, visited in the given order
RECURSIVE GroupLoop(_, _, _, _, _)
GroupLoop(items, groups, strategy, order, k) ==
    IF k > Len(order) THEN items
    ELSE
        LET indices == groups[order[k]]
            after == IF Len(indices) <= 1 THEN items
                     ELSE IF strategy = "full_path"
                     THEN disambiguateGroupFullPath(items, indices)
                     ELSE disambiguateGroup(items, indices)
        IN GroupLoop(after, groups, strategy, order, k + 1)

\* DisambiguateNames(items, strategy)
DisambiguateNames(items, strategy, order) ==
    GroupLoop(items, [n \in GroupNames(items) |-> GroupOf(items, n)],
              strategy, order, 1)

----------------------------------------------------------------------------
(* DisambiguateNames on drawn inputs (specification SpecNames) *)

PXD == <<"/", "p", "/", "x", "/", "d">>
XYD == <<"/", "x", "/", "y", "/", "d">>
QYD == <<"/", "q", "/", "y", "/", "d">>
YD  == <<"/", "y", "/", "d">>
D   == <<"/", "d">>

NamePaths == {PXD, XYD, QYD, YD, D}

\* an entry as cmd/select builds it from an expanded path
Expanded(path, depth) == [Name |-> LastNSegments(path, depth), Path |-> path]

\* the drawn lists: distinct paths, each with a display depth of 1 or 2
ItemLists ==
    UNION { { [i \in 1..n |-> Expanded(ps[i], ds[i])] :
              ps \in {q \in [1..n -> NamePaths] :
                         \A i \in 1..n : \A j \in 1..n : i # j => q[i] # q[j]},
              ds \in [1..n -> 1..2] } :
            n \in 1..MaxItems }

InitNames ==
    /\ names \in [items : ItemLists,
                  strategy : {"first_unique_segment", "full_path"},
                  out : {<<>>}, done : {FALSE}]
    /\ config = <<>> /\ clock = 0 /\ diskCache = NoFile /\ result = <<>>
    /\ fs = [n \in Nodes |-> [kind |-> "none", mtime |-> 0]]
    /\ last = NoTrace /\ stored = EmptyMap
    /\ valid = Idle /\ rank = Idle
    /\ sess = Idle /\ fan = Idle /\ race = Idle /\ sel = Idle /\ red = Idle
    /\ picker = Idle /\ bare = Idle

\* one call of DisambiguateNames
Disambiguate ==
    /\ ~names.done
    /\ \E order \in Orders(GroupNames(names.items)) :
          names' = [names EXCEPT
                       !.out = DisambiguateNames(names.items, names.strategy, order),
                       !.done = TRUE]
    /\ UNCHANGED <<config, fs, clock, diskCache, result, last, stored, valid, rank, sess, fan, race, sel, red, picker, bare>>

NextNames == Disambiguate

SpecNames == InitNames /\ [][NextNames]_vars

\* the ancestor segments of an entry below its display name
Ancestors(item) == splitParentSegments(parentDir(item.Path, item.Name))

\* C2: after DisambiguateNames, with either strategy, two entries have the
\* same Name only when no ancestor segment distinguishes them.
C2_NamesDistinct ==
    names.done =>
        \A i \in DOMAIN names.out : \A j \in DOMAIN names.out :
            (i # j /\ names.out[i].Name = names.out[j].Name)
                => Ancestors(names.items[i]) = Ancestors(names.items[j])

----------------------------------------------------------------------------
(* The history package: Record, RemoveWith, SaveWith, LoadWith and
   SortByRecencyWith *)

\* project.NewProject(path)
NewProject(path) == [Name |-> Base(path), Path |-> path]

\* string comparison a < b of Go, on byte strings of the model's alphabet
ByteRank(c) ==
    IF c = " " THEN 1 ELSE IF c = "(" THEN 2 ELSE IF c = ")" THEN 3
    ELSE IF c = "." THEN 4 ELSE IF c = "/" THEN 5 ELSE IF c = ":" THEN 6
    ELSE IF c = "_" THEN 7 ELSE IF c = "a" THEN 8 ELSE IF c = "b" THEN 9
    ELSE IF c = "d" THEN 10 ELSE IF c = "h" THEN 11 ELSE IF c = "m" THEN 12
    ELSE IF c = "p" THEN 13 ELSE IF c = "q" THEN 14 ELSE IF c = "r" THEN 15
    ELSE IF c = "s" THEN 16 ELSE IF c = "t" THEN 17 ELSE IF c = "u" THEN 18
    ELSE IF c = "x" THEN 19 ELSE IF c = "y" THEN 20 ELSE 21

RECURSIVE StringLess(_, _)
StringLess(a, b) ==
    IF b = <<>> THEN FALSE
    ELSE IF a = <<>> THEN TRUE
    ELSE IF ByteRank(Head(a)) # ByteRank(Head(b))
    THEN ByteRank(Head(a)) < ByteRank(Head(b))
    ELSE StringLess(Tail(a), Tail(b))

\* the accessTimes map of SortByRecencyWith: a later entry overwrites
RECURSIVE AccessTimes(_, _, _)
AccessTimes(entries, i, acc) ==
    IF i > Len(entries) THEN acc
    ELSE AccessTimes(entries, i + 1, Put(acc, entries[i].Path, entries[i].LastAccess))

\* Mutant: of two visited projects the more recent one sorts first
Less_NewestFirst(acc, a, b) ==
    IF a.Path \in DOMAIN acc /\ b.Path \in DOMAIN acc
    THEN acc[a.Path] > acc[b.Path]
    ELSE IF a.Path \in DOMAIN acc THEN FALSE
    ELSE IF b.Path \in DOMAIN acc THEN TRUE
    ELSE StringLess(a.Name, b.Name)

\* Mutant: two projects without history are never reordered
Less_KeepOrder(acc, a, b) ==
    IF a.Path \in DOMAIN acc /\ b.Path \in DOMAIN acc
    THEN acc[a.Path] < acc[b.Path]
    ELSE IF a.Path \in DOMAIN acc THEN FALSE
    ELSE IF b.Path \in DOMAIN acc THEN TRUE
    ELSE FALSE

\* the comparator handed to sort.SliceStable
Less(acc, a, b) ==
    IF a.Path \in DOMAIN acc /\ b.Path \in DOMAIN acc
    THEN acc[a.Path] < acc[b.Path]
    ELSE IF a.Path \in DOMAIN acc THEN FALSE
    ELSE IF b.Path \in DOMAIN acc THEN TRUE
    ELSE StringLess(a.Name, b.Name)

\* sort.SliceStable on a short slice: element i sinks while it is less than
\* its left neighbour
RECURSIVE Sink(_, _, _)
Sink(acc, s, j) ==
    IF j > 1 /\ Less(acc, s[j], s[j - 1])
    THEN Sink(acc, [s EXCEPT ![j] = s[j - 1], ![j - 1] = s[j]], j - 1)
    ELSE s

RECURSIVE SliceStable(_, _, _)
SliceStable(acc, s, i) ==
    IF i > Len(s) THEN s
    ELSE SliceStable(acc, Sink(acc, s, i), i + 1)

\* History.SortByRecencyWith(d, projects)
SortByRecencyWith(f, entries, projects) ==
    SliceStable(AccessTimes(entries, 1, EmptyMap), projects, 2)

\* History.Record(path), at time now
Record(entries, path, now) ==
    IF \E i \in DOMAIN entries : entries[i].Path = path
    THEN [i \in DOMAIN entries |->
             IF entries[i].Path = path
                /\ \A j \in 1..(i - 1) : entries[j].Path # path
             THEN [entries[i] EXCEPT !.LastAccess = now]
             ELSE entries[i]]
    ELSE Append(entries, [Path |-> path, LastAccess |-> now])

\* History.RemoveWith(d, path): the first entry with the path is cut out
RemoveWith(entries, path) ==
    IF \E i \in DOMAIN entries : entries[i].Path = path
    THEN LET k == CHOOSE i \in DOMAIN entries :
                     /\ entries[i].Path = path
                     /\ \A j \in 1..(i - 1) : entries[j].Path # path
         IN SubSeq(entries, 1, k - 1) \o SubSeq(entries, k + 1, Len(entries))
    ELSE entries

\* the seen map of dedupeEntriesBy: resolved path -> latest access
RECURSIVE DedupeSeen(_, _, _, _)
DedupeSeen(f, entries, i, seen) ==
    IF i > Len(entries) THEN seen
    ELSE
        LET r == EvalSymlinks(f, entries[i].Path)
            resolved == IF r.ok THEN r.path ELSE entries[i].Path
        IN DedupeSeen(f, entries, i + 1,
               IF resolved \in DOMAIN seen
               THEN IF entries[i].LastAccess > seen[resolved]
                    THEN Put(seen, resolved, entries[i].LastAccess)
                    ELSE seen
               ELSE Put(seen, resolved, entries[i].LastAccess))

\* dedupeEntriesBy: the entries rebuilt from the seen map in the given order
dedupeEntriesBy(f, entries, order) ==
    LET seen == DedupeSeen(f, entries, 1, EmptyMap)
    IN [i \in DOMAIN order |-> [Path |-> order[i], LastAccess |-> seen[order[i]]]]

\* the resolved paths dedupeEntriesBy ranges over
DedupeKeys(f, entries) == DOMAIN DedupeSeen(f, entries, 1, EmptyMap)

\* json.MarshalIndent of the history followed by json.Unmarshal
JsonHistory(entries) ==
    [i \in DOMAIN entries |->
        [Path |-> JsonString(entries[i].Path),
         LastAccess |-> JsonTime(entries[i].LastAccess)]]

NoHistory == [state |-> "absent", Entries |-> <<>>]

\* History.SaveWith(d): the history file afterwards
SaveWith(file, entries, mkdirOK, write) ==
    IF ~mkdirOK \/ write = "fail" THEN file
    ELSE IF write = "torn" THEN [state |-> "garbage", Entries |-> <<>>]
    ELSE [state |-> "ok", Entries |-> JsonHistory(entries)]

\* an Entry that json.Unmarshal left untouched
ZeroEntry == [Path |-> <<>>, LastAccess |-> 0]

\* LoadWith(d, path): the entries of h after json.Unmarshal.  A file that is
\* not JSON leaves h as it was.  A file that is JSON with a number where the
\* last element of "entries" should be (state "mistyped") is decoded as far
\* as it fits: that element stays a zero Entry, the others are stored, and
\* Unmarshal returns an UnmarshalTypeError.
LoadWith(file) ==
    IF file.state = "ok" THEN file.Entries
    ELSE IF file.state = "mistyped" THEN Append(file.Entries, ZeroEntry)
    ELSE <<>>

\* LoadWith: json.Unmarshal returned nil, dedupeEntriesBy is reached
Decoded(file) == file.state = "ok"

\* LoadWith: the error returned, that of a ReadFile which failed for another
\* reason than a missing file
LoadErr(file) == file.state = "unreadable"

\* LoadWith: the entries of the history returned
Loaded(f, file, order) ==
    IF Decoded(file) THEN dedupeEntriesBy(f, LoadWith(file), order)
    ELSE LoadWith(file)

----------------------------------------------------------------------------
(* The history operations on a fixed tree (specification SpecRank) *)

\* /r and /r/a are directories, /h links to /r, /r/ab links to /r/a
RankFs ==
    [n \in Nodes |->
        IF n \in {R, RA, RAS} THEN [kind |-> "dir", mtime |-> 0]
        ELSE IF n \in {H, RAB} THEN [kind |-> "link", mtime |-> 0]
        ELSE [kind |-> "none", mtime |-> 0]]

\* the project paths of the picker
RankPaths == {RA, RAB, RAS}

\* the drawn project lists: two or three projects with distinct paths
ProjectLists ==
    UNION { { [i \in 1..n |-> NewProject(ps[i])] :
              ps \in {q \in [1..n -> RankPaths] :
                         \A i \in 1..n : \A j \in 1..n : i # j => q[i] # q[j]} } :
            n \in 2..3 }

InitRank ==
    /\ rank \in [entries : {<<>>}, file : {NoHistory}, projects : ProjectLists,
                 sorted : {<<>>}, done : {FALSE}, err : {FALSE}, from : {"none"}]
    /\ fs = RankFs
    /\ clock = 0
    /\ config = <<>> /\ diskCache = NoFile /\ result = <<>>
    /\ last = NoTrace /\ stored = EmptyMap
    /\ valid = Idle /\ names = Idle
    /\ sess = Idle /\ fan = Idle /\ race = Idle /\ sel = Idle /\ red = Idle
    /\ picker = Idle /\ bare = Idle

RankRest == <<config, fs, diskCache, result, last, stored, valid, names,
             sess, fan, race, sel, red, picker, bare>>

\* a project is opened: History.Record with the picked project's path
RecordStep(path) ==
    /\ clock < MaxNow
    /\ clock' = clock + 1
    /\ rank' = [rank EXCEPT !.entries = Record(@, path, clock + 1),
                            !.sorted = <<>>, !.done = FALSE, !.from = "none"]
    /\ UNCHANGED RankRest

\* a project is dropped from the history: History.RemoveWith
RemoveStep(path) ==
    /\ \E i \in DOMAIN rank.entries : rank.entries[i].Path = path
    /\ rank' = [rank EXCEPT !.entries = RemoveWith(@, path),
                            !.sorted = <<>>, !.done = FALSE, !.from = "none"]
    /\ UNCHANGED <<clock, RankRest>>

\* History.SaveWith
SaveStep ==
    /\ \E mkdirOK \in BOOLEAN : \E write \in {"ok", "fail", "torn"} :
          rank' = [rank EXCEPT !.file = SaveWith(@, rank.entries, mkdirOK, write)]
    /\ UNCHANGED <<clock, RankRest>>

\* history.LoadWith at the start of a run; from is the state the file was
\* found in, until the history is changed
LoadStep ==
    /\ \E order \in Orders(IF Decoded(rank.file)
                            THEN DedupeKeys(fs, LoadWith(rank.file)) ELSE {}) :
          rank' = [rank EXCEPT !.entries = Loaded(fs, rank.file, order),
                               !.err = LoadErr(rank.file),
                               !.from = rank.file.state,
                               !.sorted = <<>>, !.done = FALSE]
    /\ UNCHANGED <<clock, RankRest>>

\* History.SortByRecencyWith on the project list
SortStep ==
    /\ ~rank.done
    /\ rank' = [rank EXCEPT
                   !.sorted = SortByRecencyWith(fs, rank.entries, rank.projects),
                   !.done = TRUE]
    /\ UNCHANGED <<clock, RankRest>>

NextRank ==
    \/ \E path \in RankPaths : RecordStep(path)
    \/ \E path \in RankPaths : RemoveStep(path)
    \/ SaveStep
    \/ LoadStep
    \/ SortStep

SpecRank == InitRank /\ [][NextRank]_vars

\* the access time SortByRecencyWith knows for a project
Known(p) == \E i \in DOMAIN rank.entries : rank.entries[i].Path = p.Path

TimeOf(p) == AccessTimes(rank.entries, 1, EmptyMap)[p.Path]

\* C9: in the returned list every project without a known access time
\* precedes every project with one, and the projects with known access times
\* are in ascending order of last access.
C9_RecencyOrder ==
    rank.done =>
        \A i \in DOMAIN rank.sorted : \A j \in DOMAIN rank.sorted :
            i < j =>
                /\ Known(rank.sorted[i]) => Known(rank.sorted[j])
                /\ (Known(rank.sorted[i]) /\ Known(rank.sorted[j]))
                       => TimeOf(rank.sorted[i]) <= TimeOf(rank.sorted[j])

\* a list of one unvisited and two visited projects that the sort reordered
C9_Witness ==
    /\ rank.done
    /\ Len(rank.sorted) = 3
    /\ ~Known(rank.sorted[1])
    /\ Known(rank.sorted[2]) /\ Known(rank.sorted[3])
    /\ TimeOf(rank.sorted[2]) < TimeOf(rank.sorted[3])
    /\ rank.sorted[3] = rank.projects[1]
    /\ rank.sorted[1] = rank.projects[2]

\* the history has an entry for the directory the project's path resolves to
Visited(p) ==
    \E i \in DOMAIN rank.entries :
        EvalSymlinks(fs, rank.entries[i].Path).ok
        /\ EvalSymlinks(fs, p.Path).ok
        /\ EvalSymlinks(fs, rank.entries[i].Path).path = EvalSymlinks(fs, p.Path).path

\* C10: a project whose path is a symlinked spelling of a history entry's path
\* is ranked as visited: no such project precedes a never-visited one.
C10_SymlinkedIsVisited ==
    rank.done =>
        \A i \in DOMAIN rank.sorted : \A j \in DOMAIN rank.sorted :
            i < j => (Visited(rank.sorted[i]) => Visited(rank.sorted[j]))

-----------------------------------------------------------------------------
(* The session-aware picker items (cmd/select.go) *)

MaxSecs == 1

tmuxSessionPathPrefix == <<"t", "m", "u", "x", ":">>
iconDirSession == "dir-session"
iconStandaloneSession == "standalone-session"

isStandaloneSession(item) == HasPrefix(item.Path, tmuxSessionPathPrefix)

\* strings.TrimPrefix(item.Path, tmuxSessionPathPrefix)
standaloneSessionName(item) ==
    IF HasPrefix(item.Path, tmuxSessionPathPrefix)
    THEN SubSeq(item.Path, Len(tmuxSessionPathPrefix) + 1, Len(item.Path))
    ELSE item.Path

\* Mutant: only the dots are replaced
sanitizeSessionName_DotsOnly(name) ==
    [i \in DOMAIN name |-> IF name[i] = "." THEN "_" ELSE name[i]]

\* strings.ReplaceAll of "." and then of ":" by "_"
sanitizeSessionName(name) ==
    [i \in DOMAIN name |-> IF name[i] \in {".", ":"} THEN "_" ELSE name[i]]

\* time.Unix(ts, 0) on the scale of the history's LastAccess, which counts
\* half seconds
Unix(ts) == 2 * ts

\* Mutant: the activity of a standalone session is not looked up
getAccessTime_HistoryOnly(historyTimes, sessionActivity, item) ==
    IF item.Path \in DOMAIN historyTimes
    THEN [ok |-> TRUE, t |-> historyTimes[item.Path]]
    ELSE [ok |-> FALSE, t |-> 0]

\* getAccessTime of sortByUnifiedRecency
getAccessTime(historyTimes, sessionActivity, item) ==
    IF item.Path \in DOMAIN historyTimes
    THEN [ok |-> TRUE, t |-> historyTimes[item.Path]]
    ELSE IF isStandaloneSession(item)
            /\ standaloneSessionName(item) \in DOMAIN sessionActivity
    THEN [ok |-> TRUE, t |-> Unix(sessionActivity[standaloneSessionName(item)])]
    ELSE [ok |-> FALSE, t |-> 0]

\* the times getAccessTime knows, by path: it reads nothing of an item but
\* its path
UnifiedTimes(items, historyTimes, sessionActivity) ==
    [p \in {items[i].Path : i \in
              {k \in DOMAIN items :
                  getAccessTime(historyTimes, sessionActivity, items[k]).ok}} |->
        getAccessTime(historyTimes, sessionActivity, [Path |-> p]).t]

\* sortByUnifiedRecency: sort.SliceStable with the comparator of
\* SortByRecencyWith over the unified times
sortByUnifiedRecency(items, entries, sessionActivity) ==
    SliceStable(UnifiedTimes(items, AccessTimes(entries, 1, EmptyMap), sessionActivity),
                items, 2)

\* Mutant: the names of the configured entries are compared as they are
projectSessionNames_Raw(baseItems) ==
    {baseItems[i].Name : i \in DOMAIN baseItems}

\* the projectSessionNames set of buildSessionAwareItemsWith
projectSessionNames(baseItems) ==
    {sanitizeSessionName(baseItems[i].Name) : i \in DOMAIN baseItems}

\* the copy of the base items with the session icon set or cleared
TagItems(baseItems, sessionActivity) ==
    [i \in DOMAIN baseItems |->
        [Name |-> baseItems[i].Name, Path |-> baseItems[i].Path,
         Icon |-> IF sanitizeSessionName(baseItems[i].Name) \in DOMAIN sessionActivity
                  THEN iconDirSession ELSE ""]]

\* the items appended for the sessions no configured entry owns; order is
\* the order in which the range over the map visits the sessions
RECURSIVE StandaloneItems(_, _, _)
StandaloneItems(order, owned, k) ==
    IF k > Len(order) THEN <<>>
    ELSE (IF order[k] \in owned THEN <<>>
          ELSE <<[Name |-> order[k], Path |-> tmuxSessionPathPrefix \o order[k],
                  Icon |-> iconStandaloneSession]>>)
         \o StandaloneItems(order, owned, k + 1)

buildSessionAwareItemsWith(baseItems, entries, sessionActivity, order) ==
    sortByUnifiedRecency(
        TagItems(baseItems, sessionActivity)
            \o StandaloneItems(order, projectSessionNames(baseItems), 1),
        entries, sessionActivity)

\* Environment: configured entries and tmux sessions
ItemDot   == [Name |-> <<"a", ".", "b">>, Path |-> <<"/", "a", ".", "b">>]
ItemColon == [Name |-> <<"a", ":", "b">>, Path |-> <<"/", "a", ":", "b">>]
ItemD     == [Name |-> <<"d">>, Path |-> <<"/", "d">>]
BaseLists ==
    {<<ItemD>>, <<ItemDot, ItemD>>, <<ItemD, ItemColon>>, <<ItemDot, ItemColon, ItemD>>}
SessionNames == {<<"a", "_", "b">>, <<"d">>, <<"m">>}

InitSess ==
    /\ sess \in [base : BaseLists, entries : {<<>>}, activity : {EmptyMap},
                 out : {<<>>}, was : {{}}, done : {FALSE}]
    /\ clock = 0
    /\ fs = [n \in Nodes |-> [kind |-> "none", mtime |-> 0]]
    /\ config = <<>> /\ diskCache = NoFile /\ result = <<>>
    /\ last = NoTrace /\ stored = EmptyMap
    /\ valid = Idle /\ names = Idle /\ rank = Idle
    /\ fan = Idle /\ race = Idle /\ sel = Idle /\ red = Idle
    /\ picker = Idle /\ bare = Idle

SessRest == <<config, fs, diskCache, result, last, stored, valid, names, rank,
              fan, race, sel, red, picker, bare>>

\* the entries that carry the session icon in the items shown last
Tagged(s) ==
    IF s.done
    THEN {s.out[i].Path : i \in {k \in DOMAIN s.out : s.out[k].Icon = iconDirSession}}
    ELSE s.was

\* a project is opened: its path is recorded in the history
SessRecord(path) ==
    /\ clock < MaxNow
    /\ clock' = clock + 1
    /\ sess' = [sess EXCEPT !.entries = Record(@, path, clock + 1),
                            !.out = <<>>, !.was = Tagged(sess), !.done = FALSE]
    /\ UNCHANGED SessRest

\* the reset action of the picker: the path leaves the history
SessRemove(path) ==
    /\ \E i \in DOMAIN sess.entries : sess.entries[i].Path = path
    /\ sess' = [sess EXCEPT !.entries = RemoveWith(@, path),
                            !.out = <<>>, !.was = Tagged(sess), !.done = FALSE]
    /\ UNCHANGED <<clock, SessRest>>

\* tmux reports a session with the given activity time
SessionActive(name, ts) ==
    /\ ~(name \in DOMAIN sess.activity /\ sess.activity[name] = ts)
    /\ sess' = [sess EXCEPT !.activity = Put(@, name, ts),
                            !.out = <<>>, !.was = Tagged(sess), !.done = FALSE]
    /\ UNCHANGED <<clock, SessRest>>

\* a tmux session ends
SessionKilled(name) ==
    /\ name \in DOMAIN sess.activity
    /\ sess' = [sess EXCEPT !.activity = Del(@, name),
                            !.out = <<>>, !.was = Tagged(sess), !.done = FALSE]
    /\ UNCHANGED <<clock, SessRest>>

\* one iteration of the picker loop builds the items
Build ==
    /\ ~sess.done
    /\ \E order \in Orders(DOMAIN sess.activity) :
          sess' = [sess EXCEPT
                     !.out = buildSessionAwareItemsWith(sess.base, sess.entries,
                                                        sess.activity, order),
                     !.done = TRUE]
    /\ UNCHANGED <<clock, SessRest>>

NextSess ==
    \/ \E i \in 1..MaxItems : i \in DOMAIN sess.base /\ SessRecord(sess.base[i].Path)
    \/ \E i \in 1..MaxItems : i \in DOMAIN sess.base /\ SessRemove(sess.base[i].Path)
    \/ \E name \in SessionNames : \E ts \in 0..MaxSecs : SessionActive(name, ts)
    \/ \E name \in SessionNames : SessionKilled(name)
    \/ Build

SpecSess == InitSess /\ [][NextSess]_vars

\* "." and ":" of a name read as "_"
Underscored(name, key) ==
    /\ Len(key) = Len(name)
    /\ \A i \in DOMAIN name :
          key[i] = (IF name[i] = "." \/ name[i] = ":" THEN "_" ELSE name[i])

HistoryTime(path) ==
    {sess.entries[i].LastAccess : i \in {k \in DOMAIN sess.entries :
                                            sess.entries[k].Path = path}}

\* the sessions of the activity map that no configured entry owns
Unowned ==
    {key \in DOMAIN sess.activity :
        \A i \in DOMAIN sess.base : ~Underscored(sess.base[i].Name, key)}

\* C11: in the built items a standalone session with activity time s stands
\* after every entry whose history time is earlier than s and before every
\* entry whose history time is later than s
C11_OneTimeline ==
    sess.done =>
        \A i \in DOMAIN sess.out : \A j \in DOMAIN sess.out :
            \A key \in DOMAIN sess.activity : \A h \in HistoryTime(sess.out[j].Path) :
                sess.out[i].Path = tmuxSessionPathPrefix \o key =>
                    /\ h < 2 * sess.activity[key] => j < i
                    /\ h > 2 * sess.activity[key] => i < j

C11_Witness ==
    /\ sess.done
    /\ \E i \in DOMAIN sess.out : \E j \in DOMAIN sess.out : \E k \in DOMAIN sess.out :
       \E key \in DOMAIN sess.activity :
          /\ i < j /\ j < k
          /\ sess.out[j].Path = tmuxSessionPathPrefix \o key
          /\ \E h \in HistoryTime(sess.out[i].Path) : h < 2 * sess.activity[key]
          /\ \E h \in HistoryTime(sess.out[k].Path) : h > 2 * sess.activity[key]

\* C12: the built items hold exactly one standalone entry, with the path
\* "tmux:" + session, for every session of the activity map that equals no
\* configured entry's sanitized name, none for the other sessions, and so
\* len(baseItems) + (number of unowned sessions) items in all
C12_OneStandalonePerUnownedSession ==
    sess.done =>
        /\ Len(sess.out) = Len(sess.base) + Cardinality(Unowned)
        /\ \A key \in DOMAIN sess.activity :
              Cardinality({i \in DOMAIN sess.out :
                              sess.out[i].Path = tmuxSessionPathPrefix \o key})
                 = (IF key \in Unowned THEN 1 ELSE 0)
        /\ \A i \in DOMAIN sess.out :
              HasPrefix(sess.out[i].Path, tmuxSessionPathPrefix) =>
                 \E key \in Unowned :
                    /\ sess.out[i].Path = tmuxSessionPathPrefix \o key
                    /\ sess.out[i].Name = key
                    /\ sess.out[i].Icon = iconStandaloneSession

C12_Witness ==
    /\ sess.done
    /\ Unowned # {}
    /\ \E key \in DOMAIN sess.activity : \E i \in DOMAIN sess.base :
          /\ Underscored(sess.base[i].Name, key)
          /\ sess.base[i].Name # key
    /\ Len(sess.out) = Len(sess.base) + Cardinality(Unowned)

\* C13: a configured entry of the built items carries the session icon
\* exactly when its sanitized name is a session of the activity map of the
\* call, whatever it carried after the call before
C13_TaggedIffSession ==
    sess.done =>
        \A i \in DOMAIN sess.out :
            ~HasPrefix(sess.out[i].Path, tmuxSessionPathPrefix) =>
                /\ sess.out[i].Icon \in {iconDirSession, ""}
                /\ sess.out[i].Icon = iconDirSession
                     <=> \E key \in DOMAIN sess.activity :
                            Underscored(sess.out[i].Name, key)

C13_Witness ==
    /\ sess.done
    /\ \E i \in DOMAIN sess.out :
          sess.out[i].Icon = "" /\ sess.out[i].Path \in sess.was
    /\ \E i \in DOMAIN sess.out :
          /\ sess.out[i].Icon = iconDirSession
          /\ \E c \in Range(sess.out[i].Name) : c = ":"

-----------------------------------------------------------------------------
(* The worktree fan-out of runSelect (cmd/select.go) *)

MaxPaths == 3

\* what a worker sends for its path: the worktrees of a bare repository,
\* nothing when they cannot be listed, the path itself otherwise.  A probed
\* path carries what HasWorktrees and ListWorktreesForPath answer for it.
WorktreeProjects(ep, worktrees) ==
    [k \in DOMAIN worktrees |->
        [Name |-> LastNSegments(ep.Path, ep.DisplayDepth) \o <<"/">> \o worktrees[k],
         Path |-> Join(ep.Path, worktrees[k]),
         ProjectName |-> Base(ep.Path), IsWorktree |-> TRUE]]

RegularProject(ep) ==
    <<[Name |-> LastNSegments(ep.Path, ep.DisplayDepth), Path |-> ep.Path,
       ProjectName |-> Base(ep.Path), IsWorktree |-> FALSE]>>

\* Mutant: a repository whose worktrees cannot be listed is shown as a
\* regular project
WorkerProjects_ErrAsRegular(ep) ==
    IF ep.HasWorktrees /\ ep.listErr = FALSE
    THEN WorktreeProjects(ep, ep.worktrees)
    ELSE RegularProject(ep)

\* the body of the worker goroutine up to the send
WorkerProjects(ep) ==
    IF ep.HasWorktrees
    THEN (IF ep.listErr THEN <<>> ELSE WorktreeProjects(ep, ep.worktrees))
    ELSE RegularProject(ep)

\* Mutant: a channel that holds one result
Capacity_One(paths) == 1

\* make(chan expandResult, len(paths))
Capacity(paths) == Len(paths)

\* Mutant: the results are appended from the last path to the first
RECURSIVE Reassemble_Reversed(_, _, _, _)
Reassemble_Reversed(resultsByIndex, n, cwd, i) ==
    IF i > n THEN <<>>
    ELSE Reassemble_Reversed(resultsByIndex, n, cwd, i + 1)
         \o SelectSeq(IF i \in DOMAIN resultsByIndex THEN resultsByIndex[i] ELSE <<>>,
                      LAMBDA ep : ~(cwd.exclude /\ ep.Path = cwd.path))

\* the loop over range paths that appends resultsByIndex[i], without the
\* current directory when it is excluded
RECURSIVE Reassemble(_, _, _, _)
Reassemble(resultsByIndex, n, cwd, i) ==
    IF i > n THEN <<>>
    ELSE SelectSeq(IF i \in DOMAIN resultsByIndex THEN resultsByIndex[i] ELSE <<>>,
                   LAMBDA ep : ~(cwd.exclude /\ ep.Path = cwd.path))
         \o Reassemble(resultsByIndex, n, cwd, i + 1)

\* Environment: resolved paths with the answers of the worktree probes
Probed(path, depth, has, err, wts) ==
    [Path |-> path, DisplayDepth |-> depth, HasWorktrees |-> has,
     listErr |-> err, worktrees |-> wts]
FanCandidates ==
    {Probed(RX, 1, FALSE, FALSE, <<>>),
     Probed(H, 1, TRUE, TRUE, <<>>),
     Probed(RA, 2, TRUE, FALSE, <<<<"s">>, <<"b">>>>),
     Probed(RAB, 1, TRUE, FALSE, <<>>)}
FanPaths ==
    {ps \in UNION {[1..n -> FanCandidates] : n \in 1..MaxPaths} :
        \A i \in DOMAIN ps : \A j \in DOMAIN ps : i # j => ps[i].Path # ps[j].Path}
FanCwd ==
    {[exclude |-> FALSE, path |-> RAS], [exclude |-> TRUE, path |-> RAS]}

InitFan ==
    /\ fan \in {f \in [paths : FanPaths, cwd : FanCwd, pc : {"spawn"}, spawned : {0},
                        worker : {<<>>}, wg : {0}, closer : {"none"},
                        cap : 0..MaxPaths, results : {<<>>}, closed : {FALSE},
                        resultsByIndex : {EmptyMap}, got : {<<>>},
                        expanded : {<<>>}] :
                    f.cap = Capacity(f.paths)}
    /\ clock = 0
    /\ fs = [n \in Nodes |-> [kind |-> "none", mtime |-> 0]]
    /\ config = <<>> /\ diskCache = NoFile /\ result = <<>>
    /\ last = NoTrace /\ stored = EmptyMap
    /\ valid = Idle /\ names = Idle /\ rank = Idle
    /\ sess = Idle /\ race = Idle /\ sel = Idle /\ red = Idle
    /\ picker = Idle /\ bare = Idle

FanRest == <<config, fs, clock, diskCache, result, last, stored, valid, names, rank,
             sess, race, sel, red, picker, bare>>

\* the parent: wg.Add(1) and go func(idx, ep) for the next path
Spawn ==
    /\ fan.pc = "spawn"
    /\ fan.spawned < Len(fan.paths)
    /\ fan' = [fan EXCEPT !.spawned = @ + 1, !.wg = @ + 1,
                          !.worker = Append(@, "running")]
    /\ UNCHANGED FanRest

\* the parent: go func() { wg.Wait(); close(results) }()
SpawnCloser ==
    /\ fan.pc = "spawn"
    /\ fan.spawned = Len(fan.paths)
    /\ fan' = [fan EXCEPT !.pc = "collect", !.closer = "waiting"]
    /\ UNCHANGED FanRest

\* worker idx: probe the path and send the result; the send waits while the
\* channel is full and panics on a closed channel
Send(idx) ==
    /\ idx \in DOMAIN fan.worker
    /\ fan.worker[idx] = "running"
    /\ fan.closed \/ Len(fan.results) < fan.cap
    /\ fan' = IF fan.closed THEN [fan EXCEPT !.worker[idx] = "panicked"]
              ELSE [fan EXCEPT
                      !.results = Append(@, [index |-> idx,
                                             projects |-> WorkerProjects(fan.paths[idx])]),
                      !.worker[idx] = "sent"]
    /\ UNCHANGED FanRest

\* worker idx: the deferred wg.Done()
Done(idx) ==
    /\ idx \in DOMAIN fan.worker
    /\ fan.worker[idx] = "sent"
    /\ fan' = [fan EXCEPT !.wg = @ - 1, !.worker[idx] = "finished"]
    /\ UNCHANGED FanRest

\* the closer: wg.Wait() returns and the channel is closed
Close ==
    /\ fan.closer = "waiting"
    /\ fan.wg = 0
    /\ fan' = [fan EXCEPT !.closer = "finished", !.closed = TRUE]
    /\ UNCHANGED FanRest

\* the parent: one iteration of for r := range results
Receive ==
    /\ fan.pc = "collect"
    /\ fan.results # <<>>
    /\ fan' = [fan EXCEPT
                 !.results = Tail(@),
                 !.resultsByIndex = Put(@, Head(fan.results).index,
                                           Head(fan.results).projects),
                 !.got = Append(@, Head(fan.results).index)]
    /\ UNCHANGED FanRest

\* the parent: the range ends on the closed and drained channel, and the
\* results are put together
Assemble ==
    /\ fan.pc = "collect"
    /\ fan.results = <<>>
    /\ fan.closed
    /\ fan' = [fan EXCEPT
                 !.pc = "assembled",
                 !.expanded = Reassemble(fan.resultsByIndex, Len(fan.paths),
                                         fan.cwd, 1)]
    /\ UNCHANGED FanRest

NextFan ==
    \/ Spawn
    \/ SpawnCloser
    \/ \E idx \in 1..MaxPaths : Send(idx)
    \/ \E idx \in 1..MaxPaths : Done(idx)
    \/ Close
    \/ Receive
    \/ Assemble

SpecFan == InitFan /\ [][NextFan]_vars

\* every goroutine that can run is run in the end
SpecFanFair ==
    /\ SpecFan
    /\ WF_vars(Spawn) /\ WF_vars(SpawnCloser) /\ WF_vars(Close)
    /\ WF_vars(Receive) /\ WF_vars(Assemble)
    /\ \A idx \in 1..MaxPaths : WF_vars(Send(idx)) /\ WF_vars(Done(idx))

\* the index of the path an expanded entry comes from
Origin(ep) ==
    CHOOSE i \in DOMAIN fan.paths :
        fan.paths[i].Path = (IF ep.IsWorktree THEN Dir(ep.Path) ELSE ep.Path)

\* the entries of expanded that come from path i
FromPath(i) == SelectSeq(fan.expanded, LAMBDA ep : Origin(ep) = i)

\* what path i shows when its probes succeed, without the current directory
Shown(i) ==
    SelectSeq(IF fan.paths[i].HasWorktrees
              THEN WorktreeProjects(fan.paths[i], fan.paths[i].worktrees)
              ELSE RegularProject(fan.paths[i]),
              LAMBDA ep : ~(fan.cwd.exclude /\ ep.Path = fan.cwd.path))

\* C14: after the fan-out the expanded entries stand in the order of the
\* resolved paths, all entries of path i before all entries of path i+1,
\* in whatever order the workers completed
C14_OriginalOrder ==
    fan.pc = "assembled" =>
        \A a \in DOMAIN fan.expanded : \A b \in DOMAIN fan.expanded :
            a < b => Origin(fan.expanded[a]) <= Origin(fan.expanded[b])

C14_Witness ==
    /\ fan.pc = "assembled"
    /\ \E a \in DOMAIN fan.got : \E b \in DOMAIN fan.got : a < b /\ fan.got[a] > fan.got[b]
    /\ \E a \in DOMAIN fan.expanded : \E b \in DOMAIN fan.expanded :
          Origin(fan.expanded[a]) < Origin(fan.expanded[b])
    /\ \E a \in DOMAIN fan.expanded : fan.expanded[a].IsWorktree

FanSafe ==
    /\ Len(fan.worker) <= Len(fan.paths)
    /\ fan.pc # "spawn" => Len(fan.worker) = Len(fan.paths)
    /\ fan.cap = Len(fan.paths)
    /\ \A idx \in DOMAIN fan.worker :
          /\ fan.worker[idx] # "panicked"
          /\ fan.worker[idx] = "running" => Len(fan.results) < fan.cap
    /\ fan.closed =>
          /\ Len(fan.worker) = Len(fan.paths)
          /\ \A idx \in DOMAIN fan.worker : fan.worker[idx] = "finished"
    /\ fan.pc = "assembled" =>
          /\ Len(fan.got) = Len(fan.paths)
          /\ \A i \in DOMAIN fan.paths : \E k \in DOMAIN fan.got : fan.got[k] = i

\* C15: one worker runs per path and the channel holds one result per path,
\* so a worker that is about to send never finds the channel full; the
\* channel is closed only when every worker has finished; the parent ends its
\* collection with exactly one result of each path
C15_FanOutCompletes ==
    /\ []FanSafe
    /\ <>(fan.pc = "assembled")

C15_Witness ==
    /\ fan.pc = "assembled"
    /\ Len(fan.paths) = MaxPaths
    /\ fan.got[1] = MaxPaths

\* C16: a path whose worktrees cannot be listed contributes no entry, every
\* other path contributes what it shows, and the fan-out comes to its end
\* all the same
C16_FailureAbsorbed ==
    fan.pc = "assembled" =>
        \A i \in DOMAIN fan.paths :
            FromPath(i) = (IF fan.paths[i].HasWorktrees /\ fan.paths[i].listErr
                           THEN <<>> ELSE Shown(i))

C16_Witness ==
    /\ fan.pc = "assembled"
    /\ \E i \in DOMAIN fan.paths : fan.paths[i].HasWorktrees /\ fan.paths[i].listErr
    /\ \E i \in DOMAIN fan.paths : FromPath(i) # <<>> /\ fan.paths[i].HasWorktrees
    /\ \E i \in DOMAIN fan.paths : FromPath(i) # <<>> /\ ~fan.paths[i].HasWorktrees

-----------------------------------------------------------------------------
(* Two invocations on the same history file or glob cache file *)

\* what the two invocations do: the project the user picks in each, the
\* configuration each was started with
RacePick(p) == IF p = 1 THEN RA ELSE RAS
RaceConfig(p) == IF p = 1 THEN <<Entry(PStar, 0)>> ELSE <<Entry(PSub, 0)>>

\* a file that os.WriteFile has opened with O_TRUNC and not yet written, or
\* whose bytes come from two writes: neither decodes
Undecodable(kind) ==
    IF kind = "history" THEN [state |-> "garbage", Entries |-> <<>>] ELSE Garbage

\* the length of the encoding, up to what all encodings share: it grows
\* with the strings encoded
RECURSIVE HistoryBytes(_, _)
HistoryBytes(entries, i) ==
    IF i > Len(entries) THEN 0
    ELSE Len(entries[i].Path) + 1 + HistoryBytes(entries, i + 1)

RECURSIVE CacheBytes(_, _)
CacheBytes(es, keys) ==
    IF keys = {} THEN 0
    ELSE LET k == CHOOSE x \in keys : TRUE
         IN Len(k) + Len(es[k].Matches) + 1 + CacheBytes(es, keys \ {k})

Bytes(kind, file) ==
    IF file.state # "ok" THEN 0
    ELSE IF kind = "history" THEN HistoryBytes(file.Entries, 1)
    ELSE CacheBytes(file.Entries, DOMAIN file.Entries)

\* f.Write(data) at offset 0 of a file of the given size: bytes beyond the
\* data stay
Overwritten(kind, size, data) ==
    IF size <= Bytes(kind, data) THEN data ELSE Undecodable(kind)

HistoryFiles ==
    {NoHistory,
     [state |-> "ok", Entries |-> <<[Path |-> R, LastAccess |-> 0]>>],
     [state |-> "ok", Entries |-> <<[Path |-> RAS, LastAccess |-> 0]>>]}

InitRace ==
    /\ race \in {r \in [kind : {"history", "cache"},
                        file : HistoryFiles \cup {NoFile},
                        size : 0..(Len(RAS) + 1),
                        proc : {[p \in {1, 2} |-> [pc |-> "start", mem |-> <<>>,
                                                   data |-> <<>>]]},
                        writes : {<<>>}] :
                   /\ r.kind = "history" <=> r.file \in HistoryFiles
                   /\ r.size = Bytes(r.kind, r.file)}
    /\ clock = 0
    /\ fs = RankFs
    /\ config = <<>> /\ diskCache = NoFile /\ result = <<>>
    /\ last = NoTrace /\ stored = EmptyMap
    /\ valid = Idle /\ names = Idle /\ rank = Idle
    /\ sess = Idle /\ fan = Idle /\ sel = Idle /\ red = Idle
    /\ picker = Idle /\ bare = Idle

RaceRest == <<config, fs, diskCache, result, last, stored, valid, names, rank,
              sess, fan, sel, red, picker, bare>>

\* invocation p reads the history file: history.LoadWith
RaceLoadHistory(p) ==
    /\ race.kind = "history"
    /\ race.proc[p].pc = "start"
    /\ \E decoded \in {LoadWith(race.file)} :
       \E order \in Orders(DedupeKeys(fs, decoded)) :
          race' = [race EXCEPT !.proc[p].pc = "loaded",
                               !.proc[p].mem = dedupeEntriesBy(fs, decoded, order)]
    /\ UNCHANGED <<clock, RaceRest>>

\* invocation p resolves its projects: ExpandProjectsWith up to the save
RaceExpand(p) ==
    /\ race.kind = "cache"
    /\ race.proc[p].pc = "start"
    /\ \E run \in {ExpandRun(fs, race.file, RaceConfig(p))} :
          race' = [race EXCEPT
                     !.proc[p].pc = IF run.cacheModified THEN "loaded" ELSE "done",
                     !.proc[p].mem = run.cache]
    /\ UNCHANGED <<clock, RaceRest>>

\* invocation p records its pick or encodes its cache, and os.WriteFile opens
\* the file, which truncates it
RaceOpen(p) ==
    /\ race.proc[p].pc = "loaded"
    /\ clock' = clock + 1
    /\ race' = [race EXCEPT
                  !.proc[p].pc = "opened",
                  !.proc[p].data =
                      IF race.kind = "history"
                      THEN SaveWith(race.file,
                                    Record(race.proc[p].mem, RacePick(p), clock + 1),
                                    TRUE, "ok")
                      ELSE saveGlobCache(race.file, race.proc[p].mem, TRUE, "ok"),
                  !.file = Undecodable(race.kind),
                  !.size = 0]
    /\ UNCHANGED RaceRest

\* os.WriteFile of invocation p writes its bytes and closes the file
RaceWrite(p) ==
    /\ race.proc[p].pc = "opened"
    /\ race' = [race EXCEPT
                  !.proc[p].pc = "done",
                  !.file = Overwritten(race.kind, race.size, race.proc[p].data),
                  !.size = IF @ <= Bytes(race.kind, race.proc[p].data)
                           THEN Bytes(race.kind, race.proc[p].data) ELSE @,
                  !.writes = Append(@, p)]
    /\ UNCHANGED <<clock, RaceRest>>

NextRace ==
    \/ \E p \in {1, 2} : RaceLoadHistory(p)
    \/ \E p \in {1, 2} : RaceExpand(p)
    \/ \E p \in {1, 2} : RaceOpen(p)
    \/ \E p \in {1, 2} : RaceWrite(p)

SpecRace == InitRace /\ [][NextRace]_vars

\* C17: when two invocations have loaded the same file, changed their copy
\* and written it back, the file holds what the last writer wrote
C17_LastWriterWins ==
    (Len(race.writes) = 2 /\ \A p \in {1, 2} : race.proc[p].pc = "done") =>
        race.file = race.proc[race.writes[2]].data

\* the invocation that wrote first has lost its update
C17_LostUpdate ==
    /\ Len(race.writes) = 2
    /\ race.kind = "history"
    /\ race.file = race.proc[race.writes[2]].data
    /\ \A i \in DOMAIN race.file.Entries :
          race.file.Entries[i].Path # RacePick(race.writes[1])

-----------------------------------------------------------------------------
(* One invocation of the select command and its file accesses *)

MaxResets == 2

\* /r, /r/a and /r/ab are directories
SelFs ==
    [n \in Nodes |->
        IF n \in {R, RA, RAB} THEN [kind |-> "dir", mtime |-> 0]
        ELSE [kind |-> "none", mtime |-> 0]]

SelConfigs == { <<Entry(PStar, 0)>>, <<Entry(RA, 0), Entry(RAB, 0)>> }

\* nothing has been opened
NotOpened == [what |-> "none", path |-> <<>>, ok |-> TRUE]

\* the state of a process that has just started, with the tmux sessions
\* there are; target is the project reset in the last round of the picker
\* loop and saved what became of the hist.Save() of that round
Started(file, activity) ==
    [pc |-> "start", items |-> <<>>, hist |-> <<>>, file |-> file, restore |-> 0,
     cacheReads |-> 0, cacheWrites |-> 0, histReads |-> 0, histWrites |-> 0,
     resets |-> 0, picks |-> 0,
     activity |-> activity, shown |-> <<>>, target |-> <<>>, opened |-> NotOpened,
     saved |-> "none"]

\* the tmux sessions when the command is invoked: one that no project owns,
\* or that one and the session of the project /r/a
SelActivities ==
    {Put(EmptyMap, <<"m">>, 1), Put(Put(EmptyMap, <<"m">>, 1), <<"a">>, 1)}

InitSel ==
    /\ sel \in {Started(NoHistory, activity) : activity \in SelActivities}
    /\ config \in SelConfigs
    /\ fs = SelFs
    /\ clock = 0
    /\ diskCache = NoFile /\ result = <<>>
    /\ last = NoTrace /\ stored = EmptyMap
    /\ valid = Idle /\ names = Idle /\ rank = Idle
    /\ sess = Idle /\ fan = Idle /\ race = Idle /\ red = Idle
    /\ picker = Idle /\ bare = Idle

SelRest == <<config, fs, result, last, stored, valid, names, rank, sess, fan, race, red, picker, bare>>

\* the base items of the picker: the projects in the order of the history
RECURSIVE Projects(_, _)
Projects(paths, i) ==
    IF i > Len(paths) THEN <<>>
    ELSE <<NewProject(paths[i].Path)>> \o Projects(paths, i + 1)

\* the top of the picker loop: buildSessionAwareItems(baseItems, hist), the
\* range over the sessions visiting them in the given order
Refreshed(s, order) ==
    [s EXCEPT !.shown = buildSessionAwareItemsWith(s.items, s.hist, s.activity, order)]

\* cfg.ExpandProjects(): the glob cache is loaded, and saved when an entry
\* was recomputed; runSelect ends when no project is found
SelExpand ==
    /\ sel.pc = "start"
    /\ \E run \in {ExpandRun(fs, diskCache, config)} :
       \E mkdirOK \in BOOLEAN : \E write \in {"ok", "fail", "torn"} :
          /\ diskCache' = IF run.cacheModified
                          THEN saveGlobCache(diskCache, run.cache, mkdirOK, write)
                          ELSE diskCache
          /\ sel' = [sel EXCEPT
                       !.pc = IF run.projects = <<>> THEN "exit" ELSE "expanded",
                       !.items = Projects(removeSubsumedPaths(run.projects), 1),
                       !.cacheReads = @ + 1,
                       !.cacheWrites = IF run.cacheModified /\ mkdirOK THEN @ + 1 ELSE @]
    /\ UNCHANGED <<clock, SelRest>>

\* history.Load, hist.SortByRecency and the first round of the picker loop
SelLoad ==
    /\ sel.pc = "expanded"
    /\ \E decoded \in {LoadWith(sel.file)} :
       \E order \in Orders(DedupeKeys(fs, decoded)) :
       \E entries \in {dedupeEntriesBy(fs, decoded, order)} :
       \E sessions \in Orders(DOMAIN sel.activity) :
          sel' = Refreshed([sel EXCEPT !.pc = "picker", !.hist = entries,
                                       !.items = SortByRecencyWith(fs, entries, @),
                                       !.histReads = @ + 1],
                           sessions)
    /\ UNCHANGED <<clock, diskCache, SelRest>>

\* hist.Save(): WriteFile is called when MkdirAll succeeds; the error is
\* dropped
Saved(s, entries, mkdirOK, write) ==
    [s EXCEPT !.hist = entries,
              !.file = SaveWith(s.file, entries, mkdirOK, write),
              !.histWrites = IF mkdirOK THEN @ + 1 ELSE @,
              !.saved = SaveOutcome(TRUE, mkdirOK, write),
              !.restore = 0]

\* Mutant: the history is read again from the file after a reset
AfterReset_Reload(s) ==
    [s EXCEPT !.items = SortByRecencyWith(SelFs, LoadWith(s.file), @),
              !.histReads = @ + 1, !.resets = @ + 1]

\* sortBaseItemsByHistory after a reset
AfterReset(s) ==
    [s EXCEPT !.items = SortByRecencyWith(SelFs, s.hist, @), !.resets = @ + 1]

\* the name of the tmux session of an item
SessionOf(item) ==
    IF isStandaloneSession(item) THEN standaloneSessionName(item)
    ELSE sanitizeSessionName(item.Name)

\* the picker returns ActionCancel, or ActionSelect with nothing selected
PickerLeave ==
    /\ sel.pc = "picker"
    /\ sel' = [sel EXCEPT !.pc = "exit", !.restore = 0, !.target = <<>>,
                          !.saved = "none"]
    /\ UNCHANGED <<clock, diskCache, SelRest>>

\* ActionSelect on a standalone session: switchToTmuxSession, and return
PickerSwitch(i) ==
    /\ sel.pc = "picker"
    /\ i \in DOMAIN sel.shown
    /\ isStandaloneSession(sel.shown[i])
    /\ \E ok \in BOOLEAN :
          sel' = [sel EXCEPT !.pc = "exit", !.restore = 0,
                             !.target = <<>>, !.saved = "none",
                             !.opened = [what |-> "switch",
                                         path |-> sel.shown[i].Path, ok |-> ok]]
    /\ UNCHANGED <<clock, diskCache, SelRest>>

\* Mutant: the session or window is opened first, and the history is
\* recorded and saved when that went well
Picked_OpenFirst(s, item, now, ok, mkdirOK, write) ==
    IF ok THEN Saved(s, Record(s.hist, item.Path, now), mkdirOK, write) ELSE s

\* ActionSelect and ActionOpenWindow on a project, up to the opening:
\* hist.Record(result.Selected.Path); hist.Save()
Picked(s, item, now, ok, mkdirOK, write) ==
    Saved(s, Record(s.hist, item.Path, now), mkdirOK, write)

\* ActionSelect or ActionOpenWindow on a project: Record, Save, open the
\* session (or send the cd to the pane) or the window, and return what the
\* opening returned
PickerOpen(i) ==
    /\ sel.pc = "picker"
    /\ i \in DOMAIN sel.shown
    /\ ~isStandaloneSession(sel.shown[i])
    /\ clock < MaxNow
    /\ clock' = clock + 1
    /\ \E mkdirOK \in BOOLEAN : \E write \in {"ok", "fail", "torn"} :
       \E what \in {"session", "window"} : \E ok \in BOOLEAN :
          sel' = [Picked(sel, sel.shown[i], clock + 1, ok, mkdirOK, write)
                  EXCEPT !.pc = "exit", !.picks = @ + 1, !.target = <<>>,
                         !.opened = [what |-> what, path |-> sel.shown[i].Path,
                                     ok |-> ok]]
    /\ UNCHANGED <<diskCache, SelRest>>

\* ActionKillSession: the session of the item is killed if there is one, the
\* cursor index is kept for the next round, which builds the items anew
PickerKillSession(i) ==
    /\ sel.pc = "picker"
    /\ i \in DOMAIN sel.shown
    /\ \E activity \in {Del(sel.activity, SessionOf(sel.shown[i]))} :
       \E sessions \in Orders(DOMAIN activity) :
          sel' = Refreshed([sel EXCEPT !.restore = i, !.activity = activity,
                                       !.target = <<>>, !.saved = "none"],
                           sessions)
    /\ UNCHANGED <<clock, diskCache, SelRest>>

\* Mutant: the entry leaves the history in memory and nothing is saved
ResetRound_NoSave(s, item, mkdirOK, write) ==
    AfterReset([s EXCEPT !.target = item.Path, !.saved = "none",
                         !.hist = RemoveWith(s.hist, item.Path)])

\* ActionReset on a project: hist.Remove(result.Selected.Path); hist.Save();
\* baseItems = sortBaseItemsByHistory(baseItems, hist)
ResetRound(s, item, mkdirOK, write) ==
    AfterReset(Saved([s EXCEPT !.target = item.Path],
                     RemoveWith(s.hist, item.Path), mkdirOK, write))

\* ActionReset on a project: Remove, Save, sortBaseItemsByHistory, and the
\* loop goes on with the next round
PickerReset(i) ==
    /\ sel.pc = "picker"
    /\ i \in DOMAIN sel.shown
    /\ ~isStandaloneSession(sel.shown[i])
    /\ sel.resets < MaxResets
    /\ \E mkdirOK \in BOOLEAN : \E write \in {"ok", "fail", "torn"} :
       \E sessions \in Orders(DOMAIN sel.activity) :
          sel' = Refreshed(ResetRound(sel, sel.shown[i], mkdirOK, write), sessions)
    /\ UNCHANGED <<clock, diskCache, SelRest>>

\* ActionReset or ActionOpenWindow on a standalone session: nothing is done
\* and the loop goes on with the next round
PickerIgnore(i) ==
    /\ sel.pc = "picker"
    /\ i \in DOMAIN sel.shown
    /\ isStandaloneSession(sel.shown[i])
    /\ \E sessions \in Orders(DOMAIN sel.activity) :
          sel' = Refreshed([sel EXCEPT !.restore = 0, !.target = <<>>,
                                       !.saved = "none"],
                           sessions)
    /\ UNCHANGED <<clock, diskCache, SelRest>>

\* the command is invoked again, with the tmux sessions there are by then
SelAgain ==
    /\ sel.pc = "exit"
    /\ \E activity \in SelActivities : sel' = Started(sel.file, activity)
    /\ UNCHANGED <<clock, diskCache, SelRest>>

NextSel ==
    \/ SelExpand
    \/ SelLoad
    \/ PickerLeave
    \/ \E i \in 1..MaxItems : PickerSwitch(i)
    \/ \E i \in 1..MaxItems : PickerOpen(i)
    \/ \E i \in 1..MaxItems : PickerKillSession(i)
    \/ \E i \in 1..MaxItems : PickerReset(i)
    \/ \E i \in 1..MaxItems : PickerIgnore(i)
    \/ SelAgain

SpecSel == InitSel /\ [][NextSel]_vars

\* C18 as stated: within one invocation the glob cache and the history log
\* are each read at most once and written at most once, whatever the user
\* does in the picker
C18_ReadOnceWrittenOnce ==
    /\ sel.cacheReads <= 1 /\ sel.cacheWrites <= 1
    /\ sel.histReads <= 1 /\ sel.histWrites <= 1

\* C18 amended: within one invocation the glob cache is read once and
\* written at most once, and the history log is read at most once and written
\* at most once for every reset and once more for the project opened
C18_ReadOnceWrittenPerSave ==
    /\ sel.cacheReads <= 1 /\ sel.cacheWrites <= 1
    /\ sel.pc # "start" => sel.cacheReads = 1
    /\ sel.histReads <= 1
    /\ sel.pc = "picker" => sel.histReads = 1
    /\ sel.picks <= 1
    /\ sel.histWrites <= sel.resets + sel.picks

C18_Witness ==
    /\ sel.pc = "exit"
    /\ sel.cacheWrites = 1
    /\ sel.histReads = 1
    /\ sel.resets = MaxResets /\ sel.picks = 1
    /\ sel.histWrites = MaxResets + 1

-----------------------------------------------------------------------------
(* Claims about the picker loop and the history (specification SpecSel) *)

\* the history has an entry for the path
HasRecord(entries, path) == \E k \in DOMAIN entries : entries[k].Path = path

\* the history has one entry for the path, and its LastAccess is t
RecordedAt(entries, path, t) ==
    /\ Cardinality({k \in DOMAIN entries : entries[k].Path = path}) = 1
    /\ \A k \in DOMAIN entries : entries[k].Path = path => entries[k].LastAccess = t

\* a round of the picker loop that ended with something being opened
Selection == sel.pc = "picker" /\ sel'.opened.what # "none"

\* C24 as stated: every selection in the picker updates the history record
\* of the selected entry to the time of the selection, and the history file
\* holds it when the session or window is opened.
C24_EverySelectionRecorded ==
    [][Selection =>
        /\ RecordedAt(sel'.hist, sel'.opened.path, clock')
        /\ sel'.file.state = "ok"
        /\ RecordedAt(sel'.file.Entries, JsonString(sel'.opened.path), clock')
    ]_vars

\* C24 amended: a selection of a project sets the project's record in the
\* history to the time of the selection, leaves the other records alone and
\* calls Save, all before the session or window is opened and so also when
\* the opening fails; the file holds the history when that write succeeds.
\* A selection of a standalone session leaves history and file as they were.
C24_ProjectSelectionRecorded ==
    [][Selection =>
        /\ sel'.opened.what \in {"session", "window"} =>
              /\ ~isStandaloneSession([Path |-> sel'.opened.path])
              /\ clock' = clock + 1
              /\ RecordedAt(sel'.hist, sel'.opened.path, clock')
              /\ \A k \in DOMAIN sel.hist :
                    sel.hist[k].Path # sel'.opened.path
                        => sel.hist[k] \in Range(sel'.hist)
              /\ Len(sel'.hist) = Len(sel.hist)
                    + (IF HasRecord(sel.hist, sel'.opened.path) THEN 0 ELSE 1)
              /\ sel'.saved # "none"
              /\ sel'.saved = "ok" =>
                    /\ sel'.file.state = "ok"
                    /\ sel'.file.Entries = JsonHistory(sel'.hist)
        /\ sel'.opened.what = "switch" =>
              /\ isStandaloneSession([Path |-> sel'.opened.path])
              /\ sel'.hist = sel.hist /\ sel'.file = sel.file /\ clock' = clock
    ]_vars

\* a project visited before is selected again for a window, the window cannot
\* be opened, and the file holds the new time all the same
C24_Witness ==
    /\ sel.pc = "exit"
    /\ sel.opened = [what |-> "window", path |-> RA, ok |-> FALSE]
    /\ sel.saved = "ok"
    /\ clock = 2
    /\ sel.file = [state |-> "ok", Entries |-> <<[Path |-> RA, LastAccess |-> 2]>>]

\* a round of the picker loop that reset a project
ResetDone == sel'.resets = sel.resets + 1

\* an entry of the picker that has been visited: a project with a record in
\* the history, or a live standalone session
SelVisited(s, item) == HasRecord(s.hist, item.Path) \/ isStandaloneSession(item)

\* the items of the next round show the project before every visited entry
RankedUnvisited(s, path) ==
    /\ \E k \in DOMAIN s.shown : s.shown[k].Path = path
    /\ \A k \in DOMAIN s.shown : \A j \in DOMAIN s.shown :
          (s.shown[k].Path = path /\ SelVisited(s, s.shown[j])) => k < j

\* C25 as stated: after a reset the entry has no record in the history in
\* memory nor in the history file, and the next round of the picker shows it
\* before every visited entry.
C25_ResetForgotten ==
    [][ResetDone =>
        /\ ~HasRecord(sel'.hist, sel'.target)
        /\ ~HasRecord(sel'.file.Entries, JsonString(sel'.target))
        /\ RankedUnvisited(sel', sel'.target)
    ]_vars

\* C25 amended: after a reset of a project the project has no record in the
\* history in memory, Save has been called and the file holds no record of
\* it when that write succeeded, and the next round of the picker shows the
\* project before every visited entry.
C25_ResetForgottenWhenSaved ==
    [][ResetDone =>
        /\ ~isStandaloneSession([Path |-> sel'.target])
        /\ ~HasRecord(sel'.hist, sel'.target)
        /\ \A k \in DOMAIN sel.hist :
              sel.hist[k].Path # sel'.target => sel.hist[k] \in Range(sel'.hist)
        /\ sel'.saved # "none"
        /\ sel'.saved = "ok" =>
              /\ sel'.file.state = "ok"
              /\ ~HasRecord(sel'.file.Entries, JsonString(sel'.target))
        /\ RankedUnvisited(sel', sel'.target)
    ]_vars

\* /r/ab was opened at time 1 and /r/a at time 2; /r/a has been reset, the
\* file no longer holds it, and it is shown first, before /r/ab and the
\* standalone session
C25_Witness ==
    /\ sel.pc = "picker"
    /\ sel.resets = 1
    /\ sel.target = RA
    /\ sel.saved = "ok"
    /\ clock = 2
    /\ sel.hist = <<[Path |-> RAB, LastAccess |-> 1]>>
    /\ sel.file = [state |-> "ok", Entries |-> sel.hist]
    /\ Len(sel.shown) = 3
    /\ sel.shown[1].Path = RA
    /\ sel.shown[2].Path = RAB
    /\ isStandaloneSession(sel.shown[3])

-----------------------------------------------------------------------------
(* The cache as ExpandProjectsWith leaves it (specification SpecFrame) *)

\* configurations in which one pattern can be stale while another is not
FrameConfigs ==
    { << Entry(PStar, 0), Entry(PStar2, 0) >>,
      << Entry(PBad, 0), Entry(PStar, 0) >>,
      << Entry(RA, 0), Entry(RAB, 0) >> }

InitFrame ==
    /\ config \in FrameConfigs
    /\ fs = [n \in Nodes |->
                IF n = R THEN [kind |-> "dir", mtime |-> 0]
                ELSE IF n = H THEN [kind |-> "link", mtime |-> 0]
                ELSE [kind |-> "none", mtime |-> 0]]
    /\ clock = 0
    /\ diskCache = NoFile
    /\ result = <<>>
    /\ last = NoTrace
    /\ stored = EmptyMap
    /\ valid = Idle /\ names = Idle /\ rank = Idle
    /\ sess = Idle /\ fan = Idle /\ race = Idle /\ sel = Idle /\ red = Idle
    /\ picker = Idle /\ bare = Idle

\* the cache file becomes unreadable, is cut short, or is rewritten by a
\* program that writes another version
Damaged(file, how) ==
    IF how = "unreadable" THEN [file EXCEPT !.state = "unreadable"]
    ELSE IF how = "version" THEN [file EXCEPT !.Version = 2]
    ELSE Garbage

Damage(how) ==
    /\ diskCache.state = "ok"
    /\ diskCache.Version = 1
    /\ diskCache' = Damaged(diskCache, how)
    /\ stored' = EmptyMap
    /\ last' = [last EXCEPT !.current = FALSE]
    /\ UNCHANGED <<config, fs, clock, result, valid, names, rank, sess, fan, race, sel, red, picker, bare>>

NextFrame ==
    \/ \E n \in Nodes : \E k \in Kinds(n) : Create(n, k)
    \/ \E n \in Nodes : Kinds(n) # {} /\ Remove(n)
    \/ \E how \in {"unreadable", "garbage", "version"} : Damage(how)
    \/ Expand

SpecFrame == InitFrame /\ [][NextFrame]_vars

\* the patterns a run recomputed, and those whose recompute failed
Recomputed(trace) ==
    {trace[i].pattern : i \in {k \in DOMAIN trace :
                                  trace[k].how \in {"miss", "stale", "error"}}}
Failed(trace) ==
    {trace[i].pattern : i \in {k \in DOMAIN trace : trace[k].how = "error"}}

\* the file after the run against the cache that the run loaded
FrameKept(before, trace, file) ==
    /\ file.state = "ok"
    /\ \A p \in DOMAIN before :
          /\ p \notin Recomputed(trace) =>
                p \in DOMAIN file.Entries /\ file.Entries[p] = before[p]
          /\ p \notin DOMAIN file.Entries => p \in Failed(trace)
    /\ \A p \in DOMAIN file.Entries : p \in DOMAIN before \/ p \in Recomputed(trace)

BadFile(file) ==
    file.state \in {"unreadable", "garbage"} \/ (file.state = "ok" /\ file.Version # 1)

\* the glob patterns of the configuration, as ExpandProjectsWith sees them
GlobPatterns(cfg) ==
    {expandHomeWith(cfg[i].Path) : i \in
        {k \in DOMAIN cfg : /\ Contains(expandHomeWith(cfg[k].Path), <<"*">>)
                            /\ ~Contains(expandHomeWith(cfg[k].Path), <<"*", "*">>)}}

\* C20: a call of ExpandProjectsWith that finds the cache file unreadable,
\* unparsable or of another version recomputes every glob pattern from the
\* filesystem and takes no entry from the file; it returns what it returns
\* without a cache file, and the file it writes holds nothing of the bad one
C20_BadFileIsNoFile ==
    [][ExpandStep /\ BadFile(diskCache) =>
          /\ \A i \in DOMAIN last'.trace : last'.trace[i].how \notin {"hit", "stale"}
          /\ \A p \in GlobPatterns(config) :
                \E i \in DOMAIN last'.trace :
                   last'.trace[i].pattern = p /\ last'.trace[i].how \in {"miss", "error"}
          /\ last'.saved = "ok" =>
                \E fresh \in {ExpandRun(fs, NoFile, config)} :
                   /\ result' = removeSubsumedPaths(fresh.projects)
                   /\ last'.trace = fresh.trace
                   /\ diskCache'.state = "ok" /\ diskCache'.Version = 1
                   /\ diskCache'.Entries = JsonEntries(fresh.cache.Entries)]_vars

\* a run has found a file of another version whose entry for one of its
\* patterns would have been a hit, and has recomputed the pattern; the file is
\* still there because the save failed
C20_Witness ==
    /\ last.current
    /\ last.saved = "fail"
    /\ diskCache.state = "ok" /\ diskCache.Version = 2
    /\ \E i \in DOMAIN last.trace :
          /\ last.trace[i].how = "miss"
          /\ last.trace[i].pattern \in DOMAIN diskCache.Entries
          /\ isCacheEntryValid(fs, diskCache.Entries[last.trace[i].pattern])
          /\ diskCache.Entries[last.trace[i].pattern].Matches # <<>>

-----------------------------------------------------------------------------
(* The list ExpandProjectsWith returns (specification SpecEntries) *)

\* configurations in which patterns overlap, are skipped, and carry display
\* depths that are unset, negative and larger than 1
EntryConfigs ==
    { << Entry(PHome, 0), Entry(PStar, 2), Entry(RA, 3) >>,
      << Entry(PRec, 2), Entry(PBad, 0), Entry(PStar, -1), Entry(PStarS, 2) >>,
      << Entry(RAB, 2), Entry(PStar, 3) >> }

InitEntries ==
    /\ config \in EntryConfigs
    /\ fs = [n \in Nodes |->
                IF n = R THEN [kind |-> "dir", mtime |-> 0]
                ELSE IF n = H THEN [kind |-> "link", mtime |-> 0]
                ELSE [kind |-> "none", mtime |-> 0]]
    /\ clock = 0
    /\ diskCache = NoFile
    /\ result = <<>>
    /\ last = NoTrace
    /\ stored = EmptyMap
    /\ valid = Idle /\ names = Idle /\ rank = Idle
    /\ sess = Idle /\ fan = Idle /\ race = Idle /\ sel = Idle /\ red = Idle
    /\ picker = Idle /\ bare = Idle

NextEntries ==
    \/ \E n \in Nodes : \E k \in Kinds(n) : Create(n, k)
    \/ \E n \in Nodes : Kinds(n) # {} /\ Remove(n)
    \/ Expand

SpecEntries == InitEntries /\ [][NextEntries]_vars

\* C21: when MkdirAll or WriteFile of the cache file fails, ExpandProjectsWith
\* returns a nil error and the list it returns when the write succeeds.
C21_WriteFailureIgnored ==
    [][(ExpandStep /\ last'.saved \in {"fail", "torn"}) =>
        /\ ~last'.err
        /\ result' = Returned(ExpandRun(fs, diskCache, config).projects, "ok").projects
    ]_vars

\* a run whose cache file was cut short by the failed write, and which
\* returned two directories all the same
C21_Witness ==
    /\ last.current
    /\ last.saved = "torn"
    /\ diskCache = Garbage
    /\ ~last.err
    /\ Len(result) >= 2

-----------------------------------------------------------------------------
(* The history and its file (specification SpecHist) *)

InitHist ==
    /\ rank = [entries |-> <<>>, file |-> NoHistory,
               projects |-> <<NewProject(RA), NewProject(RAB)>>,
               sorted |-> <<>>, done |-> FALSE, err |-> FALSE, from |-> "none"]
    /\ fs = RankFs
    /\ clock = 0
    /\ config = <<>> /\ diskCache = NoFile /\ result = <<>>
    /\ last = NoTrace /\ stored = EmptyMap
    /\ valid = Idle /\ names = Idle
    /\ sess = Idle /\ fan = Idle /\ race = Idle /\ sel = Idle /\ red = Idle
    /\ picker = Idle /\ bare = Idle

\* the history file as something else than pop leaves it: removed, cut short,
\* edited into JSON of the wrong shape, or made unreadable
Corrupted(file, how) ==
    IF how = "absent" THEN NoHistory
    ELSE IF how = "garbage" THEN [state |-> "garbage", Entries |-> <<>>]
    ELSE [file EXCEPT !.state = how]

\* (a file is given a misplaced number once: the guard keeps the history finite)
Corrupt(how) ==
    /\ rank.file.state = "ok"
    /\ how = "mistyped" => ZeroEntry \notin Range(rank.file.Entries)
    /\ rank' = [rank EXCEPT !.file = Corrupted(@, how)]
    /\ UNCHANGED <<clock, RankRest>>

NextHist ==
    \/ \E path \in RankPaths : RecordStep(path)
    \/ \E path \in RankPaths : RemoveStep(path)
    \/ SaveStep
    \/ LoadStep
    \/ \E how \in {"absent", "garbage", "mistyped", "unreadable"} : Corrupt(how)

SpecHist == InitHist /\ [][NextHist]_vars

\* C22: a history loaded from a missing or corrupt file is empty and comes
\* without an error.
C22_MissingOrCorruptIsEmpty ==
    rank.from \in {"absent", "garbage", "mistyped"} =>
        /\ rank.entries = <<>>
        /\ ~rank.err

\* C23: the history never holds two entries for one canonical path.
C23_OnePerCanonicalPath ==
    \A i \in DOMAIN rank.entries : \A j \in DOMAIN rank.entries :
        i # j => Resolved(fs, rank.entries[i].Path) # Resolved(fs, rank.entries[j].Path)

-----------------------------------------------------------------------------
(* The path-set reduction on drawn candidates (specification SpecReduce) *)

\* the candidates of all patterns handed to addProject one after the other,
\* each with the display depth of its pattern
RECURSIVE AddEach(_, _, _, _)
AddEach(f, st, candidates, j) ==
    IF j > Len(candidates) THEN st
    ELSE AddEach(f, addProject(f, st, candidates[j].Path, candidates[j].DisplayDepth),
                 candidates, j + 1)

\* the reduction of ExpandProjectsWith: the directory filter and the seen set
\* of addProject, then removeSubsumedPaths
Reduce(f, candidates) ==
    removeSubsumedPaths(AddEach(f, [projects |-> <<>>, seen |-> {}], candidates, 1).projects)

\* the trees the candidates are looked up in: /r/ab a link to the directory
\* /r/a, /r/a and /r/ab directories, /r/a a file
ReduceTrees ==
    {RankFs, SelFs,
     [n \in Nodes |->
        IF n \in {R, RAB} THEN [kind |-> "dir", mtime |-> 0]
        ELSE IF n = RA THEN [kind |-> "file", mtime |-> 0]
        ELSE [kind |-> "none", mtime |-> 0]]}

ReducePaths == {R, RA, RAB, RAS}

\* the candidate lists: up to MaxPaths paths, repeated or not, in any order
CandidateLists ==
    UNION {[1..n -> [Path : ReducePaths, DisplayDepth : {1, 2}]] : n \in 0..MaxPaths}

InitReduce ==
    /\ red \in [input : CandidateLists, pc : {"drawn"}, out : {<<>>}, once : {<<>>},
                twice : {<<>>}]
    /\ fs \in ReduceTrees
    /\ clock = 0
    /\ config = <<>> /\ diskCache = NoFile /\ result = <<>>
    /\ last = NoTrace /\ stored = EmptyMap
    /\ valid = Idle /\ names = Idle /\ rank = Idle
    /\ sess = Idle /\ fan = Idle /\ race = Idle /\ sel = Idle
    /\ picker = Idle /\ bare = Idle

ReduceRest == <<config, fs, clock, diskCache, result, last, stored, valid, names,
                rank, sess, fan, race, sel, picker, bare>>

\* removeSubsumedPaths on the drawn list
Subsume ==
    /\ red.pc = "drawn"
    /\ red' = [red EXCEPT !.pc = "subsumed", !.out = removeSubsumedPaths(red.input)]
    /\ UNCHANGED ReduceRest

\* the reduction of the drawn candidates
ReduceOnce ==
    /\ red.pc = "drawn"
    /\ red' = [red EXCEPT !.pc = "reduced", !.once = Reduce(fs, red.input)]
    /\ UNCHANGED ReduceRest

\* the reduction of what the reduction returned, on the same tree
ReduceTwice ==
    /\ red.pc = "reduced"
    /\ red' = [red EXCEPT !.pc = "again", !.twice = Reduce(fs, red.once)]
    /\ UNCHANGED ReduceRest

NextReduce == Subsume \/ ReduceOnce \/ ReduceTwice

SpecReduce == InitReduce /\ [][NextReduce]_vars

\* C26: reducing the output of the reduction again, on the same tree, gives
\* the same list, hence the same set of paths.
C26_ReduceIdempotent ==
    red.pc = "again" =>
        /\ red.twice = red.once
        /\ {red.twice[i].Path : i \in DOMAIN red.twice}
              = {red.once[i].Path : i \in DOMAIN red.once}

\* /r/a twice and /r/a/s: the second /r/a is a duplicate, the first is
\* subsumed; reducing the one path left again changes nothing
C26_Witness ==
    /\ red.pc = "again"
    /\ fs = RankFs
    /\ red.input = <<[Path |-> RA, DisplayDepth |-> 1],
                     [Path |-> RAS, DisplayDepth |-> 2],
                     [Path |-> RA, DisplayDepth |-> 2]>>
    /\ red.once = <<[Path |-> RAS, DisplayDepth |-> 2]>>
    /\ red.twice = red.once

\* C27: removeSubsumedPaths returns, in their order, exactly the input paths
\* P such that no input path starts with P + "/"; sharing a string prefix
\* removes nothing.
C27_SubsequenceOfUnsubsumed ==
    red.pc = "subsumed" =>
        /\ red.out = SelectSeq(red.input,
                        LAMBDA e : ~\E j \in DOMAIN red.input :
                                       /\ red.input[j].Path # e.Path
                                       /\ HasPrefix(red.input[j].Path, e.Path \o <<"/">>))
        /\ \A i \in DOMAIN red.input :
              (\A j \in DOMAIN red.input : Dir(red.input[j].Path) # red.input[i].Path
                                           /\ Dir(Dir(red.input[j].Path)) # red.input[i].Path)
                  => red.input[i] \in Range(red.out)

\* /r/a, /r/ab and /r/a/s: /r/a goes because of /r/a/s, /r/ab stays although
\* it starts with the string /r/a
C27_Witness ==
    /\ red.pc = "subsumed"
    /\ red.input = <<[Path |-> RA, DisplayDepth |-> 1],
                     [Path |-> RAB, DisplayDepth |-> 1],
                     [Path |-> RAS, DisplayDepth |-> 1]>>
    /\ red.out = <<[Path |-> RAB, DisplayDepth |-> 1],
                   [Path |-> RAS, DisplayDepth |-> 1]>>

-----------------------------------------------------------------------------
(* Claims about the list ExpandProjectsWith returns (specification SpecEntries) *)

\* the candidates handed to addProject by the last run, in order, each with
\* the display depth of the configured entry it came from
RECURSIVE Stamped(_, _, _)
Stamped(trace, cfg, i) ==
    IF i > Len(trace) THEN <<>>
    ELSE (IF trace[i].how \in {"hit", "miss", "stale", "exact"}
          THEN [k \in DOMAIN trace[i].matches |->
                   [Path |-> trace[i].matches[k],
                    DisplayDepth |-> GetDisplayDepth(cfg[i])]]
          ELSE <<>>)
         \o Stamped(trace, cfg, i + 1)

\* k is the first place of the path cs[k].Path in cs
FirstSeen(cs, k) == \A j \in 1..(k - 1) : cs[j].Path # cs[k].Path

\* the first place of path p in cs
FirstPlace(cs, p) == CHOOSE k \in DOMAIN cs : cs[k].Path = p /\ FirstSeen(cs, k)

\* C28: a path produced several times is returned at most once, with the
\* display depth of its first occurrence among the candidates, and the paths
\* returned are in the order of their first occurrences.
C28_FirstSeenWins ==
    last.current =>
        \A cs \in {Stamped(last.trace, config, 1)} :
            /\ \A i \in DOMAIN result : \A j \in DOMAIN result :
                  i # j => result[i].Path # result[j].Path
            /\ \A i \in DOMAIN result :
                  \E k \in DOMAIN cs :
                      /\ cs[k].Path = result[i].Path
                      /\ FirstSeen(cs, k)
                      /\ result[i].DisplayDepth = cs[k].DisplayDepth
            /\ \A i \in DOMAIN result : \A j \in DOMAIN result :
                  i < j => FirstPlace(cs, result[i].Path) < FirstPlace(cs, result[j].Path)

\* /r/ab is configured with depth 2 and matched again by /r/* with depth 3,
\* which also matches /r/a: /r/ab comes first and keeps depth 2
C28_Witness ==
    /\ last.current
    /\ config = << Entry(RAB, 2), Entry(PStar, 3) >>
    /\ Stamped(last.trace, config, 1)
          = << Entry(RAB, 2), Entry(RA, 3), Entry(RAB, 3) >>
    /\ result = << Entry(RAB, 2), Entry(RA, 3) >>

\* the configured entries that are not skipped: no ** in the expanded
\* pattern, and a glob pattern is well formed
NotSkipped(e) ==
    /\ ~Contains(expandHomeWith(e.Path), <<"*", "*">>)
    /\ Contains(expandHomeWith(e.Path), <<"*">>)
          => ValidatePattern(SplitPattern(expandHomeWith(e.Path)).pat)

\* C29: a pattern with ** or with invalid glob syntax contributes nothing and
\* raises no error; the call returns the list, and every other pattern the
\* matches, of the same call on the configuration without those patterns.
C29_SkippedPatternAbsent ==
    [][ExpandStep =>
        /\ ~last'.err
        /\ Len(last'.trace) = Len(config)
        /\ \A i \in DOMAIN config :
              ~NotSkipped(config[i]) =>
                  /\ last'.trace[i].how \in {"skip", "error"}
                  /\ last'.trace[i].matches = <<>>
        /\ \A without \in {ExpandRun(fs, diskCache, SelectSeq(config, NotSkipped))} :
              /\ result' = Returned(without.projects, "ok").projects
              /\ SelectSeq(last'.trace, LAMBDA t : t.how \notin {"skip", "error"})
                    = without.trace
    ]_vars

\* /r/** and /r/[* are skipped and /r/* and /r/*/s still give /r/ab and /r/a/s
C29_Witness ==
    /\ last.current
    /\ ~last.err
    /\ config = << Entry(PRec, 2), Entry(PBad, 0), Entry(PStar, -1), Entry(PStarS, 2) >>
    /\ last.trace[1].how = "skip"
    /\ last.trace[2].how = "error"
    /\ result = << Entry(RAB, 1), Entry(RAS, 2) >>

\* C30: every entry returned has a display depth of at least 1, which is the
\* configured depth of the entry that first produced its path, or 1 when that
\* depth is 0, unset or negative.
C30_EffectiveDisplayDepth ==
    last.current =>
        \A r \in Range(result) :
            /\ r.DisplayDepth >= 1
            /\ \E i \in DOMAIN config :
                  /\ last.trace[i].how \in {"hit", "miss", "stale", "exact"}
                  /\ r.Path \in Range(last.trace[i].matches)
                  /\ \A j \in 1..(i - 1) :
                        last.trace[j].how \in {"hit", "miss", "stale", "exact"}
                            => r.Path \notin Range(last.trace[j].matches)
                  /\ r.DisplayDepth = IF config[i].DisplayDepth <= 0 THEN 1
                                      ELSE config[i].DisplayDepth

\* ~/* is configured without a depth and /r/a with depth 3: /r/a is returned
\* with depth 1, from ~/*
C30_Witness ==
    /\ last.current
    /\ config = << Entry(PHome, 0), Entry(PStar, 2), Entry(RA, 3) >>
    /\ last.trace[1].matches = <<RA, RAB>>
    /\ result = << Entry(RA, 1), Entry(RAB, 1) >>

-----------------------------------------------------------------------------
(* DisambiguateNames on lists with several and larger groups
   (specification SpecGroups) *)

QXD == <<"/", "q", "/", "x", "/", "d">>
PYD == <<"/", "p", "/", "y", "/", "d">>

\* the four paths of the compound case, a path whose parent is the
\* grandparent of others, and a path directly under the root
GroupPaths == {PXD, QXD, PYD, QYD, XYD, D}

MaxMembers == 4

GroupLists ==
    UNION { { [i \in 1..n |-> Expanded(ps[i], ds[i])] :
              ps \in {q \in [1..n -> GroupPaths] :
                         \A i \in 1..n : \A j \in 1..n : i # j => q[i] # q[j]},
              ds \in [1..n -> 1..2] } :
            n \in 1..MaxMembers }

InitGroups ==
    /\ names \in [items : GroupLists,
                  strategy : {"first_unique_segment", "full_path"},
                  out : {<<>>}, done : {FALSE}]
    /\ config = <<>> /\ clock = 0 /\ diskCache = NoFile /\ result = <<>>
    /\ fs = [n \in Nodes |-> [kind |-> "none", mtime |-> 0]]
    /\ last = NoTrace /\ stored = EmptyMap
    /\ valid = Idle /\ rank = Idle
    /\ sess = Idle /\ fan = Idle /\ race = Idle /\ sel = Idle /\ red = Idle
    /\ picker = Idle /\ bare = Idle

SpecGroups == InitGroups /\ [][NextNames]_vars

\* the entries that share the name of entry i before the call
Group(items, i) == {j \in DOMAIN items : items[j].Name = items[i].Name}

\* the members of G whose segment at a level (counted from 0) is the segment
\* of no other member of the set open
UniqueAt(items, open, level) ==
    {i \in open :
        /\ level < Len(Ancestors(items[i]))
        /\ \A j \in open \ {i} :
              level < Len(Ancestors(items[j]))
                  => Ancestors(items[j])[level + 1] # Ancestors(items[i])[level + 1]}

\* the members of G not resolved by a single segment below the given level
RECURSIVE OpenAt(_, _, _)
OpenAt(items, G, level) ==
    IF level = 0 THEN G
    ELSE OpenAt(items, G, level - 1)
            \ UniqueAt(items, OpenAt(items, G, level - 1), level - 1)

\* the number of levels of a group
Levels(items, G) ==
    CHOOSE m \in {Len(Ancestors(items[i])) : i \in G} :
        \A i \in G : Len(Ancestors(items[i])) <= m

\* C31: first_unique_segment gives a member of a colliding group, at the
\* first level where its segment is the segment of no other member not yet
\* resolved, the name "name (segment)", and that is its final name.
C31_FirstUniqueSegment ==
    (names.done /\ names.strategy = "first_unique_segment") =>
        \A i \in DOMAIN names.items :
            \A G \in {Group(names.items, i)} :
                Cardinality(G) > 1 =>
                    \A level \in 0..(Levels(names.items, G) - 1) :
                        i \in UniqueAt(names.items, OpenAt(names.items, G, level), level)
                            => names.out[i].Name
                                  = names.items[i].Name \o <<" ", "(">>
                                       \o Ancestors(names.items[i])[level + 1] \o <<")">>

\* d at /p/x/d and /q/y/d become d (x) and d (y); with /p/y/d in the group
\* as well, /p/x/d is resolved by its parent and the two others by their
\* grandparents
C31_Witness ==
    /\ names.done
    /\ names.strategy = "first_unique_segment"
    /\ names.items = <<Expanded(PXD, 1), Expanded(PYD, 1), Expanded(QYD, 1)>>
    /\ names.out[1].Name = <<"d", " ", "(", "x", ")">>
    /\ names.out[2].Name = <<"d", " ", "(", "p", ")">>
    /\ names.out[3].Name = <<"d", " ", "(", "q", ")">>

\* the first n segments of an entry, the outermost of them first, joined by "/"
RECURSIVE Compound(_, _)
Compound(segs, n) ==
    IF n = 0 \/ segs = <<>> THEN <<>>
    ELSE IF n = 1 \/ Len(segs) = 1 THEN segs[1]
    ELSE Compound(Tail(segs), n - 1) \o <<"/">> \o segs[1]

\* the compounds of n levels are pairwise different among the members of U
CompoundsUnique(items, U, n) ==
    \A i \in U : \A j \in U :
        i # j => Compound(Ancestors(items[i]), n) # Compound(Ancestors(items[j]), n)

\* the number of levels at which the building of the compounds stops
StopLevels(items, G, U) ==
    IF \E n \in 1..Levels(items, G) : CompoundsUnique(items, U, n)
    THEN CHOOSE n \in 1..Levels(items, G) :
             /\ CompoundsUnique(items, U, n)
             /\ \A m \in 1..(n - 1) : ~CompoundsUnique(items, U, m)
    ELSE Levels(items, G)

\* C32: the members of a colliding group that no single segment resolved get
\* "name (compound)", the compound being the segments of the levels up to the
\* first level where the compounds of those members are pairwise different,
\* outermost first and joined by "/"; a member without any parent segment
\* keeps its name.
C32_CompoundFallback ==
    (names.done /\ names.strategy = "first_unique_segment") =>
        \A i \in DOMAIN names.items :
            \A G \in {Group(names.items, i)} :
                Cardinality(G) > 1 =>
                    \A U \in {OpenAt(names.items, G, Levels(names.items, G))} :
                        i \in U =>
                            \A c \in {Compound(Ancestors(names.items[i]),
                                               StopLevels(names.items, G, U))} :
                                names.out[i].Name
                                    = IF c = <<>> THEN names.items[i].Name
                                      ELSE names.items[i].Name \o <<" ", "(">>
                                               \o c \o <<")">>

\* d at /p/x/d, /q/x/d, /p/y/d and /q/y/d: no single segment resolves any of
\* them and two levels are needed
C32_Witness ==
    /\ names.done
    /\ names.strategy = "first_unique_segment"
    /\ names.items = <<Expanded(PXD, 1), Expanded(QXD, 1),
                       Expanded(PYD, 1), Expanded(QYD, 1)>>
    /\ names.out[1].Name = <<"d", " ", "(", "p", "/", "x", ")">>
    /\ names.out[2].Name = <<"d", " ", "(", "q", "/", "x", ")">>
    /\ names.out[3].Name = <<"d", " ", "(", "p", "/", "y", ")">>
    /\ names.out[4].Name = <<"d", " ", "(", "q", "/", "y", ")">>

\* /p/x/d and /x/y/d are resolved by their grandparents; of the two left,
\* /q/x/d and /q/y/d, the parents differ and the compound stops there
C32_StopsEarly ==
    /\ names.done
    /\ names.strategy = "first_unique_segment"
    /\ names.items = <<Expanded(PXD, 1), Expanded(QXD, 1),
                       Expanded(XYD, 1), Expanded(QYD, 1)>>
    /\ names.out[2].Name = <<"d", " ", "(", "x", ")">>
    /\ names.out[4].Name = <<"d", " ", "(", "y", ")">>

\* a name with the first n segments of its entry put in front, outermost first
Prefixed(item, n) ==
    IF Compound(Ancestors(item), n) = <<>> THEN item.Name
    ELSE Compound(Ancestors(item), n) \o <<"/">> \o item.Name

\* the names of the members of G with n levels applied are pairwise different
PrefixedUnique(items, G, n) ==
    \A i \in G : \A j \in G :
        i # j => Prefixed(items[i], n) # Prefixed(items[j], n)

\* the number of levels full_path applies to a group
AppliedLevels(items, G) ==
    IF \E n \in 1..Levels(items, G) : PrefixedUnique(items, G, n)
    THEN CHOOSE n \in 1..Levels(items, G) :
             /\ PrefixedUnique(items, G, n)
             /\ \A m \in 1..(n - 1) : ~PrefixedUnique(items, G, m)
    ELSE Levels(items, G)

\* the number of segments put in front of the name of entry i
PrependedTo(i) == Len(Split(names.out[i].Name)) - Len(Split(names.items[i].Name))

C34_GroupOrderIrrelevant ==
    names.done =>
        \A order \in Orders(GroupNames(names.items)) :
            DisambiguateNames(names.items, names.strategy, order) = names.out

\* two colliding groups, d and y/d, and the names full_path gives them
C34_Witness ==
    /\ names.done
    /\ names.strategy = "full_path"
    /\ names.items = <<Expanded(PYD, 1), Expanded(D, 1),
                       Expanded(QYD, 2), Expanded(XYD, 2)>>
    /\ names.out[1].Name = <<"y", "/", "d">>
    /\ names.out[2].Name = <<"d">>
    /\ names.out[3].Name = <<"q", "/", "y", "/", "d">>
    /\ names.out[4].Name = <<"x", "/", "y", "/", "d">>

-----------------------------------------------------------------------------
(* SortByRecencyWith on projects whose names can be equal
   (specification SpecOrder) *)

\* the names DisambiguateNames can leave on two paths: different or equal
OrderNames == {<<"a">>, <<"b">>}

\* the drawn project lists: two or three projects with distinct paths, each
\* with one of the names
NamedLists ==
    UNION { { [i \in 1..n |-> [Name |-> ns[i], Path |-> ps[i]]] :
              ps \in {q \in [1..n -> RankPaths] :
                         \A i \in 1..n : \A j \in 1..n : i # j => q[i] # q[j]},
              ns \in [1..n -> OrderNames] } :
            n \in 2..3 }

InitOrder ==
    /\ rank \in [entries : {<<>>}, file : {NoHistory}, projects : NamedLists,
                 sorted : {<<>>}, done : {FALSE}, err : {FALSE}, from : {"none"}]
    /\ fs = RankFs
    /\ clock = 0
    /\ config = <<>> /\ diskCache = NoFile /\ result = <<>>
    /\ last = NoTrace /\ stored = EmptyMap
    /\ valid = Idle /\ names = Idle
    /\ sess = Idle /\ fan = Idle /\ race = Idle /\ sel = Idle /\ red = Idle
    /\ picker = Idle /\ bare = Idle

NextOrder ==
    \/ \E path \in RankPaths : RecordStep(path)
    \/ \E path \in RankPaths : RemoveStep(path)
    \/ SortStep

SpecOrder == InitOrder /\ [][NextOrder]_vars

\* the lists that hold the projects of a list in another order
Reordered(projects) ==
    {[k \in DOMAIN projects |-> projects[o[k]]] : o \in Orders(DOMAIN projects)}

\* the place of a project in a list of projects with distinct paths
PlaceIn(projects, p) == CHOOSE k \in DOMAIN projects : projects[k].Path = p.Path

\* C35 as stated: the ranked output is the same for every order of the same
\* input entries.
C35_InputOrderIrrelevant ==
    rank.done =>
        \A perm \in Reordered(rank.projects) :
            SortByRecencyWith(fs, rank.entries, perm) = rank.sorted

\* C35 amended: the entries without a known access time come out in
\* ascending order of name, those with equal names in their input order; the
\* output is the same for every order of the input whenever no two entries
\* without a known access time have the same name and no two known access
\* times are equal.
C35_AlphabeticalAndStable ==
    rank.done =>
        /\ \A i \in DOMAIN rank.sorted : \A j \in DOMAIN rank.sorted :
              (i < j /\ ~Known(rank.sorted[i]) /\ ~Known(rank.sorted[j])) =>
                  /\ ~StringLess(rank.sorted[j].Name, rank.sorted[i].Name)
                  /\ rank.sorted[i].Name = rank.sorted[j].Name
                        => PlaceIn(rank.projects, rank.sorted[i])
                              < PlaceIn(rank.projects, rank.sorted[j])
        /\ (\A i \in DOMAIN rank.projects : \A j \in DOMAIN rank.projects :
               i # j =>
                  /\ (~Known(rank.projects[i]) /\ ~Known(rank.projects[j]))
                        => rank.projects[i].Name # rank.projects[j].Name
                  /\ (Known(rank.projects[i]) /\ Known(rank.projects[j]))
                        => TimeOf(rank.projects[i]) # TimeOf(rank.projects[j]))
              => \A perm \in Reordered(rank.projects) :
                     SortByRecencyWith(fs, rank.entries, perm) = rank.sorted

\* b, a, a without history: the two a come first, in their input order
C35_Witness ==
    /\ rank.done
    /\ rank.entries = <<>>
    /\ rank.projects = <<[Name |-> <<"b">>, Path |-> RAS],
                         [Name |-> <<"a">>, Path |-> RAB],
                         [Name |-> <<"a">>, Path |-> RA]>>
    /\ rank.sorted = <<[Name |-> <<"a">>, Path |-> RAB],
                       [Name |-> <<"a">>, Path |-> RA],
                       [Name |-> <<"b">>, Path |-> RAS]>>

\* b, a without history come out as a, b
C35_TwoUnvisited ==
    /\ rank.done
    /\ rank.entries = <<>>
    /\ rank.projects = <<[Name |-> <<"b">>, Path |-> RA],
                         [Name |-> <<"a">>, Path |-> RAB]>>
    /\ rank.sorted = <<[Name |-> <<"a">>, Path |-> RAB],
                       [Name |-> <<"b">>, Path |-> RA]>>

-----------------------------------------------------------------------------
(* History.RemoveWith called with any path (specification SpecRemove) *)

\* the history, with the path of the last RemoveWith call and the entries
\* that call found
InitRemove ==
    /\ rank = [entries |-> <<>>, file |-> NoHistory,
               projects |-> <<NewProject(RA), NewProject(RAB)>>,
               sorted |-> <<>>, done |-> FALSE, err |-> FALSE, from |-> "none",
               asked |-> <<>>, before |-> <<>>]
    /\ fs = RankFs
    /\ clock = 0
    /\ config = <<>> /\ diskCache = NoFile /\ result = <<>>
    /\ last = NoTrace /\ stored = EmptyMap
    /\ valid = Idle /\ names = Idle
    /\ sess = Idle /\ fan = Idle /\ race = Idle /\ sel = Idle /\ red = Idle
    /\ picker = Idle /\ bare = Idle

\* History.RemoveWith(d, path), whether the history holds the path or not
RemoveCall(path) ==
    /\ rank' = [rank EXCEPT !.entries = RemoveWith(@, path),
                            !.asked = path, !.before = rank.entries,
                            !.sorted = <<>>, !.done = FALSE, !.from = "none"]
    /\ UNCHANGED <<clock, RankRest>>

\* History.Record between the removals
RecordCall(path) ==
    /\ clock < MaxNow
    /\ clock' = clock + 1
    /\ rank' = [rank EXCEPT !.entries = Record(@, path, clock + 1),
                            !.asked = <<>>, !.before = <<>>,
                            !.sorted = <<>>, !.done = FALSE, !.from = "none"]
    /\ UNCHANGED RankRest

NextRemove ==
    \/ \E path \in RankPaths : RecordCall(path)
    \/ \E path \in RankPaths \cup {RX} : RemoveCall(path)

SpecRemove == InitRemove /\ [][NextRemove]_vars

\* the entry is the one asked for: its path is the path given or the path
\* that one resolves to
AskedFor(e) ==
    \/ e.Path = rank.asked
    \/ e.Path = ResolvedOr(EvalSymlinks(fs, rank.asked), rank.asked)

\* C36: RemoveWith cuts out the entry whose path is the given path or its
\* resolution and keeps the other entries in place and in order; it removes
\* nothing when the history holds neither.
C36_RemovesResolvedSpelling ==
    rank.asked # <<>> =>
        IF \E k \in DOMAIN rank.before : AskedFor(rank.before[k])
        THEN \E k \in DOMAIN rank.before :
                /\ AskedFor(rank.before[k])
                /\ rank.entries = SubSeq(rank.before, 1, k - 1)
                                     \o SubSeq(rank.before, k + 1, Len(rank.before))
        ELSE rank.entries = rank.before

\* C36, the part that holds: an entry whose path string is the given path is
\* cut out and the others stay in order, and nothing is removed when no entry
\* has that path string.
C36_RemovesSameString ==
    rank.asked # <<>> =>
        IF \E k \in DOMAIN rank.before : rank.before[k].Path = rank.asked
        THEN \E k \in DOMAIN rank.before :
                /\ rank.before[k].Path = rank.asked
                /\ rank.entries = SubSeq(rank.before, 1, k - 1)
                                     \o SubSeq(rank.before, k + 1, Len(rank.before))
        ELSE rank.entries = rank.before

-----------------------------------------------------------------------------
(* The base items of the picker loop and their sorting after a reset
   (specification SpecResort) *)

\* the project names of the repositories the worktrees belong to
ResortContexts == {<<>>, <<"p">>}

\* the paths of the expanded projects
ResortPaths == {RA, RAB}

\* the expanded projects of a run: two or three, each with one of the
\* names; a path can be found twice, as a worktree and as a directory
ExpandedLists ==
    UNION { { [i \in 1..n |-> [Name |-> ns[i], Path |-> ps[i], ProjectName |-> cs[i]]] :
              ps \in [1..n -> ResortPaths],
              ns \in [1..n -> OrderNames],
              cs \in [1..n -> ResortContexts] } :
            n \in 2..3 }

\* project.Project{Name: item.Name, Path: item.Path} for each item
ToProjects(items) ==
    [i \in DOMAIN items |-> [Name |-> items[i].Name, Path |-> items[i].Path]]

\* pathToItem[path] after pathToItem[item.Path] = item for each item in
\* turn: the last item of the path
pathToItem(items, path) ==
    items[CHOOSE i \in DOMAIN items :
             /\ items[i].Path = path
             /\ \A j \in DOMAIN items : items[j].Path = path => j <= i]

\* sorted[i] = pathToItem[p.Path] for the projects in their sorted order
Rebuilt(items, projects) ==
    [i \in DOMAIN projects |-> pathToItem(items, projects[i].Path)]

\* ui.Item{Name: ep.Name, Path: ep.Path, Context: ep.ProjectName}
BaseItem(ep) == [Name |-> ep.Name, Path |-> ep.Path, Context |-> ep.ProjectName]

\* runSelect: the expanded projects sorted by recency and rebuilt by path,
\* and the base items made of them
baseItemsOf(f, expanded, entries) ==
    [i \in DOMAIN expanded |->
        BaseItem(Rebuilt(expanded,
                         SortByRecencyWith(f, entries, ToProjects(expanded)))[i])]

\* Mutant: the items are looked up by the name of the sorted project
sortBaseItemsByHistory_ByName(f, items, entries) ==
    [i \in DOMAIN items |->
        items[CHOOSE k \in DOMAIN items :
                 /\ items[k].Name = SortByRecencyWith(f, entries, ToProjects(items))[i].Name
                 /\ \A j \in DOMAIN items :
                       items[j].Name = items[k].Name => j <= k]]

\* sortBaseItemsByHistory
sortBaseItemsByHistory(f, items, entries) ==
    Rebuilt(items, SortByRecencyWith(f, entries, ToProjects(items)))

InitResort ==
    /\ rank \in [entries : {<<>>}, pc : {"start"}, expanded : ExpandedLists,
                 base : {<<>>}, input : {<<>>}, resets : {0}]
    /\ fs = RankFs
    /\ clock = 0
    /\ config = <<>> /\ diskCache = NoFile /\ result = <<>>
    /\ last = NoTrace /\ stored = EmptyMap
    /\ valid = Idle /\ names = Idle
    /\ sess = Idle /\ fan = Idle /\ race = Idle /\ sel = Idle /\ red = Idle
    /\ picker = Idle /\ bare = Idle

\* an earlier run opened a project: History.Record
ResortRecord(path) ==
    /\ rank.pc = "start"
    /\ clock < MaxNow
    /\ clock' = clock + 1
    /\ rank' = [rank EXCEPT !.entries = Record(@, path, clock + 1)]
    /\ UNCHANGED RankRest

\* runSelect up to the picker loop
ResortBuild ==
    /\ rank.pc = "start"
    /\ rank' = [rank EXCEPT !.pc = "loop",
                            !.base = baseItemsOf(fs, rank.expanded, rank.entries)]
    /\ UNCHANGED <<clock, RankRest>>

\* ActionReset on the item i: hist.Remove, and
\* baseItems = sortBaseItemsByHistory(baseItems, hist)
ResortReset(i) ==
    /\ rank.pc = "loop"
    /\ i \in DOMAIN rank.base
    /\ rank.resets < MaxResets
    /\ rank' = [rank EXCEPT
                   !.entries = RemoveWith(@, rank.base[i].Path),
                   !.input = rank.base,
                   !.base = sortBaseItemsByHistory(fs, rank.base,
                                RemoveWith(rank.entries, rank.base[i].Path)),
                   !.resets = @ + 1]
    /\ UNCHANGED <<clock, RankRest>>

NextResort ==
    \/ \E path \in ResortPaths : ResortRecord(path)
    \/ ResortBuild
    \/ \E i \in 1..3 : ResortReset(i)

SpecResort == InitResort /\ [][NextResort]_vars

\* how many times the item x is in the list
Times(items, x) == Cardinality({i \in DOMAIN items : items[i] = x})

\* C38: the list sortBaseItemsByHistory returns after a reset is as long as
\* the base items it was given and holds each of them as many times as they
\* were in it, with the Name, Path and Context they had
C38_ResortIsPermutation ==
    rank.resets > 0 =>
       /\ Len(rank.base) = Len(rank.input)
       /\ \A x \in Range(rank.input) \cup Range(rank.base) :
             Times(rank.base, x) = Times(rank.input, x)

\* a reset has moved an item of a list where two items share a name
C38_Witness ==
    /\ rank.resets > 0
    /\ rank.base # rank.input
    /\ \E i \in DOMAIN rank.input : \E j \in DOMAIN rank.input :
          i # j /\ rank.input[i].Name = rank.input[j].Name
                /\ rank.input[i].Path # rank.input[j].Path

\* a reset has sorted base items two of which have one path
C38_SharedPath ==
    /\ rank.resets > 0
    /\ \E i \in DOMAIN rank.input : \E j \in DOMAIN rank.input :
          i # j /\ rank.input[i].Path = rank.input[j].Path

\* the base items runSelect builds that have one path are one item
C38_SharedPathSameItem ==
    rank.pc = "loop" =>
       \A i \in DOMAIN rank.base : \A j \in DOMAIN rank.base :
          rank.base[i].Path = rank.base[j].Path => rank.base[i] = rank.base[j]

-----------------------------------------------------------------------------
(* findBareRootWith (specification SpecBare, and SpecBareFair where every
   step that can be taken is taken) *)

\* the turns of the loop that are counted
MaxTurns == 5

Slash == <<"/">>

\* what d.FS.Getwd() can hand back: a directory of the tree, the root, and,
\* with an error that is dropped, the empty string or a relative path
WorkDirs == {RAS, RA, R, Slash, <<>>, <<"a">>}

\* the directories that can hold a .git directory; "." is the one reached
\* from an empty or relative working directory
GitHolders == {RAS, RA, R, <<".">>}

\* a start: wd is what Getwd returns, gitDirs are the directories dir for
\* which Stat(Join(dir, ".git")) is a directory, bares those of them where
\* git config --get core.bare prints true
BareStarts ==
    { s \in [wd : WorkDirs, gitDirs : SUBSET GitHolders, bares : SUBSET GitHolders,
             pc : {"start"}, dir : {<<>>}, out : {<<>>}, turns : {0}] :
      s.bares \subseteq s.gitDirs }

InitBare ==
    /\ bare \in BareStarts
    /\ fs = RankFs
    /\ clock = 0
    /\ config = <<>> /\ diskCache = NoFile /\ result = <<>>
    /\ last = NoTrace /\ stored = EmptyMap
    /\ valid = Idle /\ names = Idle /\ rank = Idle
    /\ sess = Idle /\ fan = Idle /\ race = Idle /\ sel = Idle /\ red = Idle
    /\ picker = Idle

BareRest == <<config, fs, clock, diskCache, result, last, stored, valid, names,
              rank, sess, fan, race, sel, red, picker>>

\* dir, _ := d.FS.Getwd()
BareGetwd ==
    /\ bare.pc = "start"
    /\ bare' = [bare EXCEPT !.pc = "loop", !.dir = bare.wd]
    /\ UNCHANGED BareRest

\* the loop condition dir != "/" is false
LoopEnds(dir) == dir = Slash

\* one turn of the loop: return dir when it holds a .git directory of a bare
\* repository, else go on with filepath.Dir(dir); turns counts the turns up
\* to MaxTurns
BareTurn ==
    /\ bare.pc = "loop"
    /\ ~LoopEnds(bare.dir)
    /\ bare' = IF bare.dir \in bare.gitDirs /\ bare.dir \in bare.bares
               THEN [bare EXCEPT !.pc = "done", !.out = bare.dir]
               ELSE [bare EXCEPT !.dir = Dir(bare.dir),
                                 !.turns = IF @ < MaxTurns THEN @ + 1 ELSE @]
    /\ UNCHANGED BareRest

\* the loop is left: return ""
BareNone ==
    /\ bare.pc = "loop"
    /\ LoopEnds(bare.dir)
    /\ bare' = [bare EXCEPT !.pc = "done", !.out = <<>>]
    /\ UNCHANGED BareRest

NextBare ==
    \/ BareGetwd
    \/ BareTurn
    \/ BareNone

SpecBare == InitBare /\ [][NextBare]_vars

SpecBareFair == SpecBare /\ WF_vars(NextBare)

\* C40: for every working directory Getwd can return, the empty and the
\* relative one included, findBareRootWith comes to its return
C40_Terminates == <>(bare.pc = "done")

\* from a working directory that starts with "/" findBareRootWith comes to
\* its return
C40_AbsoluteTerminates ==
    <>(bare.wd # <<>> /\ bare.wd[1] = "/" => bare.pc = "done")

\* what is returned is the empty string or the nearest directory, from the
\* working directory upwards, that holds the .git directory of a bare
\* repository
C40_ReturnsBareRootOrNothing ==
    bare.pc = "done" =>
       \/ bare.out = <<>>
       \/ bare.out \in bare.bares

\* the loop has turned more often than the deepest working directory has
\* ancestors, and is still turning
C40_StillTurning ==
    /\ bare.pc = "loop"
    /\ bare.turns = MaxTurns
    /\ bare.dir = <<".">>

-----------------------------------------------------------------------------
(* The Picker: key presses, filter text and window sizes
   (specification SpecPicker) *)

\* the characters that are typed into the filter, and the longest filter
MaxQuery == 1
Alphabet == {"a", "z"}
Queries == UNION {[1..n -> Alphabet] : n \in 0..MaxQuery}

\* an item of the picker
NewItem(name, path) == [Name |-> name, Path |-> path]

\* the item lists: five items with their own paths, five where two items
\* have one path, one item, and none
PickerItems ==
    { <<NewItem(<<"a">>, <<"/", "a">>), NewItem(<<"a", "b">>, <<"/", "a", "b">>),
        NewItem(<<"c">>, <<"/", "c">>), NewItem(<<"d">>, <<"/", "d">>),
        NewItem(<<"e">>, <<"/", "e">>)>>,
      <<NewItem(<<"a">>, <<"/", "a">>), NewItem(<<"A">>, <<"/", "a">>),
        NewItem(<<"c">>, <<"/", "c">>), NewItem(<<"d">>, <<"/", "d">>),
        NewItem(<<"e">>, <<"/", "e">>)>>,
      <<NewItem(<<"a">>, <<"/", "a">>)>>,
      <<>> }

\* the terminal heights of the tea.WindowSizeMsg
WindowHeights == {0, 8, 14}

\* the digits of the keys that are pressed with alt or ctrl
Digits == {0, 1, 2, 9}

\* strings.ToLower on the letters of the model
ToLower(c) == IF c = "A" THEN "a" ELSE c

\* algo.FuzzyMatchV2, case-insensitive: the pattern is matched when its
\* characters are found in the name in their order, from position i
RECURSIVE FuzzyFrom(_, _, _)
FuzzyFrom(name, pattern, i) ==
    IF pattern = <<>> THEN TRUE
    ELSE IF i > Len(name) THEN FALSE
    ELSE IF ToLower(name[i]) = ToLower(Head(pattern))
         THEN FuzzyFrom(name, Tail(pattern), i + 1)
    ELSE FuzzyFrom(name, pattern, i + 1)

\* result.Score > 0
FuzzyMatches(item, query) == FuzzyFrom(item.Name, query, 1)

\* the indices of the items a query matches
Matching(items, query) == {i \in DOMAIN items : FuzzyMatches(items[i], query)}

\* the matches of a query sorted by score with sort.Slice: the matching
\* items in an order that is the same each time the query is filtered
Rankings(items) ==
    { [q \in Queries \ {<<>>} |-> [k \in DOMAIN o[q] |-> items[o[q][k]]]] :
      o \in { f \in [Queries \ {<<>>} ->
                        UNION {Orders(Matching(items, q)) : q \in Queries \ {<<>>}}] :
                 \A q \in Queries \ {<<>>} : f[q] \in Orders(Matching(items, q)) } }

ActionSelect == 0
ActionCancel == 1
ActionKillSession == 5
ActionReset == 6
ActionOpenWindow == 7
ActionCustomCommand == 8

\* what reading an index out of range leaves: the run-time panic
OutOfRange == NewItem(<<"panic">>, <<>>)

\* &p.filtered[idx]: the item, or the index is out of range
ItemAt(filtered, idx) ==
    IF idx >= 0 /\ idx < Len(filtered) THEN <<filtered[idx + 1]>> ELSE <<OutOfRange>>

\* the zero Result: ActionSelect with nothing selected
NoResult == [Selected |-> <<>>, Action |-> ActionSelect]

\* NewPicker(items, opts...)
NewPicker(items, ranked, modifier, cursorAtEnd, custom) ==
    [pc |-> "new", items |-> items, ranked |-> ranked, filtered |-> items,
     query |-> <<>>, lastQuery |-> <<>>, cursor |-> 0, scroll |-> 0, height |-> 10,
     cursorMemory |-> [q \in Queries |-> <<>>], result |-> NoResult,
     showHelp |-> FALSE, quickAccessModifier |-> modifier,
     cursorAtEnd |-> cursorAtEnd, customCommands |-> custom,
     watch |-> FALSE, key |-> <<>>]

quickAccessEnabled(p) ==
    p.quickAccessModifier # "" /\ p.quickAccessModifier # "disabled"

\* Picker.quickAccessDigit on a key with the modifier mod and the code of
\* the digit
quickAccessDigit(p, mod, digit) ==
    IF digit < 1 \/ digit > 9 THEN 0
    ELSE IF p.quickAccessModifier = "alt" /\ mod = "alt" THEN digit
    ELSE IF p.quickAccessModifier = "ctrl" /\ mod = "ctrl" THEN digit
    ELSE 0

\* adjustScroll: visible
Visible(p) == IF p.height > Len(p.filtered) THEN Len(p.filtered) ELSE p.height

\* adjustScroll: margin
Margin(p, visible) ==
    IF quickAccessEnabled(p) THEN (IF 9 >= visible THEN visible - 1 ELSE 9) ELSE 0

\* adjustScroll: the cursor is too close to the top of the visible area
ScrollUp(p, margin) ==
    IF p.cursor - p.scroll < margin THEN p.cursor - margin ELSE p.scroll

\* adjustScroll: the cursor is below the visible area
ScrollDown(cursor, scroll, visible) ==
    IF cursor >= scroll + visible THEN cursor - visible + 1 ELSE scroll

\* adjustScroll: the scroll bounds
ClampScroll(scroll, maxScroll) ==
    IF (IF scroll < 0 THEN 0 ELSE scroll) > (IF maxScroll < 0 THEN 0 ELSE maxScroll)
    THEN (IF maxScroll < 0 THEN 0 ELSE maxScroll)
    ELSE (IF scroll < 0 THEN 0 ELSE scroll)

adjustScroll(p) ==
    IF Visible(p) = 0 THEN [p EXCEPT !.scroll = 0]
    ELSE [p EXCEPT !.scroll =
             ClampScroll(ScrollDown(p.cursor, ScrollUp(p, Margin(p, Visible(p))),
                                    Visible(p)),
                         Len(p.filtered) - Visible(p))]

\* findItemIndex: the index of the first item with the path, or -1
findItemIndex(filtered, path) ==
    IF \E i \in DOMAIN filtered : filtered[i].Path = path
    THEN (CHOOSE i \in DOMAIN filtered :
             /\ filtered[i].Path = path
             /\ \A j \in DOMAIN filtered : filtered[j].Path = path => i <= j) - 1
    ELSE -1

\* filter: the selection and its screen position are saved under the
\* previous query
Remember(p, query) ==
    IF query # p.lastQuery /\ Len(p.filtered) > 0 /\ p.cursor < Len(p.filtered)
    THEN [p EXCEPT !.cursorMemory[p.lastQuery] =
                      <<[path |-> ItemAt(p.filtered, p.cursor)[1].Path,
                         screenPos |-> p.cursor - p.scroll]>>]
    ELSE p

\* filter: the filtered list is built
Refilter(p, query) ==
    [p EXCEPT !.filtered = IF query = <<>> THEN p.items ELSE p.ranked[query]]

\* filter: cursor and scroll of a changed query, restored from the memory
\* or put on the best match
Reposition(p, query, queryChanged) ==
    IF ~queryChanged THEN p
    ELSE IF p.cursorMemory[query] # <<>>
    THEN [p EXCEPT !.cursor = findItemIndex(p.filtered, p.cursorMemory[query][1].path),
                   !.scroll = findItemIndex(p.filtered, p.cursorMemory[query][1].path)
                              - p.cursorMemory[query][1].screenPos]
    ELSE [p EXCEPT !.cursor = Len(p.filtered) - 1, !.scroll = 0]

\* filter: the cursor is put in bounds
ClampCursor(p) ==
    [p EXCEPT !.cursor = IF (IF @ >= Len(p.filtered) THEN Len(p.filtered) - 1 ELSE @) < 0
                         THEN 0
                         ELSE (IF @ >= Len(p.filtered) THEN Len(p.filtered) - 1 ELSE @)]

\* Picker.filter with the value of the input
filter(p, query) ==
    adjustScroll(ClampCursor(
        [Reposition(Refilter(Remember(p, query), query), query, query # p.lastQuery)
         EXCEPT !.lastQuery = query, !.query = query]))

\* the pickers that are made: the items, the order of the matches of each
\* query, the quick access modifier ("" when the option is not given),
\* WithCursorAtEnd or not, and no custom command or one on alt+1

Pickers ==
    UNION { { NewPicker(items, ranked, modifier, cursorAtEnd, custom) :
              ranked \in Rankings(items),
              modifier \in {"alt", "ctrl", "disabled", ""},
              cursorAtEnd \in BOOLEAN,
              custom \in {<<>>, <<"alt", 1>>} } :
            items \in PickerItems }

InitPicker ==
    /\ picker \in Pickers
    /\ fs = RankFs
    /\ clock = 0
    /\ config = <<>> /\ diskCache = NoFile /\ result = <<>>
    /\ last = NoTrace /\ stored = EmptyMap
    /\ valid = Idle /\ names = Idle /\ rank = Idle
    /\ sess = Idle /\ fan = Idle /\ race = Idle /\ sel = Idle /\ red = Idle
    /\ bare = Idle

PickerRest == <<config, fs, clock, diskCache, result, last, stored, valid, names,
                rank, sess, fan, race, sel, red, bare>>

\* Picker.Init
PickerInit ==
    /\ picker.pc = "new"
    /\ picker' = adjustScroll(
                    [picker EXCEPT !.pc = "run",
                                   !.cursor = IF picker.cursorAtEnd /\ Len(picker.filtered) > 0
                                              THEN Len(picker.filtered) - 1 ELSE @])
    /\ UNCHANGED PickerRest

\* return p, tea.Quit with the result
Quit(p, selected, action) ==
    [p EXCEPT !.pc = "quit", !.result = [Selected |-> selected, Action |-> action]]

\* a key press that is not a quick access key is what the last key was
Pressed(p) == [p EXCEPT !.key = <<>>]

\* f1: the help overlay is shown; with the overlay shown the key is swallowed
HelpKey ==
    /\ picker.pc = "run"
    /\ picker' = [Pressed(picker) EXCEPT !.showHelp = TRUE]
    /\ UNCHANGED PickerRest

\* esc, ctrl+c: the help overlay is dismissed, or the picker is left with
\* ActionCancel
QuitKey ==
    /\ picker.pc = "run"
    /\ picker' = IF picker.showHelp THEN [Pressed(picker) EXCEPT !.showHelp = FALSE]
                 ELSE Quit(Pressed(picker), <<>>, ActionCancel)
    /\ UNCHANGED PickerRest

\* enter
EnterKey ==
    /\ picker.pc = "run"
    /\ picker' = IF picker.showHelp THEN Pressed(picker)
                 ELSE IF Len(picker.filtered) > 0
                 THEN Quit(Pressed(picker), ItemAt(picker.filtered, picker.cursor),
                           ActionSelect)
                 ELSE [Pressed(picker) EXCEPT !.pc = "quit"]
    /\ UNCHANGED PickerRest

\* Mutant: the cursor is moved and the scroll is left as it is
Moved_NoScroll(p, cursor) ==
    IF p.showHelp \/ Len(p.filtered) = 0 THEN p
    ELSE [p EXCEPT !.cursor = cursor]

\* the cursor is moved when there are items, and the scroll adjusted
Moved(p, cursor) ==
    IF p.showHelp \/ Len(p.filtered) = 0 THEN p
    ELSE adjustScroll([p EXCEPT !.cursor = cursor])

\* up, ctrl+p: one up, from the top to the bottom
UpKey ==
    /\ picker.pc = "run"
    /\ picker' = Moved(Pressed(picker),
                       IF picker.cursor > 0 THEN picker.cursor - 1
                       ELSE Len(picker.filtered) - 1)
    /\ UNCHANGED PickerRest

\* down, ctrl+n: one down, from the bottom to the top
DownKey ==
    /\ picker.pc = "run"
    /\ picker' = Moved(Pressed(picker),
                       IF picker.cursor < Len(picker.filtered) - 1 THEN picker.cursor + 1
                       ELSE 0)
    /\ UNCHANGED PickerRest

\* page := p.height, at least 1
Page(p) == IF p.height < 1 THEN 1 ELSE p.height

\* ctrl+b
HalfPageUpKey ==
    /\ picker.pc = "run"
    /\ picker' = Moved(Pressed(picker),
                       IF picker.cursor - Page(picker) < 0 THEN 0
                       ELSE picker.cursor - Page(picker))
    /\ UNCHANGED PickerRest

\* ctrl+f
HalfPageDownKey ==
    /\ picker.pc = "run"
    /\ picker' = Moved(Pressed(picker),
                       IF picker.cursor + Page(picker) >= Len(picker.filtered)
                       THEN Len(picker.filtered) - 1
                       ELSE picker.cursor + Page(picker))
    /\ UNCHANGED PickerRest

\* the item actions that are enabled: WithKillSession and WithReset are
\* given, WithOpenWindow is not
EnabledActions == {ActionKillSession, ActionReset}

\* ctrl+k, ctrl+r, ctrl+o: the action on the item under the cursor when it
\* is enabled and there are items; else the key goes to the text input,
\* which it leaves as it is, and the items are filtered
ItemKey(action) ==
    /\ picker.pc = "run"
    /\ picker' = IF picker.showHelp THEN Pressed(picker)
                 ELSE IF action \in EnabledActions /\ Len(picker.filtered) > 0
                 THEN Quit(Pressed(picker), ItemAt(picker.filtered, picker.cursor), action)
                 ELSE filter(Pressed(picker), picker.query)
    /\ UNCHANGED PickerRest

\* alt+backspace, ctrl+u: the input is cleared
ClearInputKey ==
    /\ picker.pc = "run"
    /\ picker' = IF picker.showHelp THEN Pressed(picker)
                 ELSE filter(Pressed(picker), <<>>)
    /\ UNCHANGED PickerRest

\* a character is typed: the text input takes it, and the items are
\* filtered
TypeKey(c) ==
    /\ picker.pc = "run"
    /\ Len(picker.query) < MaxQuery
    /\ picker' = IF picker.showHelp THEN Pressed(picker)
                 ELSE filter(Pressed(picker), Append(picker.query, c))
    /\ UNCHANGED PickerRest

\* backspace (WithDelete is not given): the text input drops its last
\* character, and the items are filtered
BackspaceKey ==
    /\ picker.pc = "run"
    /\ picker' = IF picker.showHelp THEN Pressed(picker)
                 ELSE filter(Pressed(picker),
                             IF picker.query = <<>> THEN <<>>
                             ELSE SubSeq(picker.query, 1, Len(picker.query) - 1))
    /\ UNCHANGED PickerRest

\* Mutant: the item n positions below the cursor
targetIdx_Below(p, n) == p.cursor + n

\* targetIdx := p.cursor - n
targetIdx(p, n) == p.cursor - n

\* the quick access case of Update
QuickAccess(p, n) ==
    IF targetIdx(p, n) >= 0 /\ targetIdx(p, n) < Len(p.filtered)
    THEN Quit(p, ItemAt(p.filtered, targetIdx(p, n)), ActionSelect)
    ELSE p

\* the default case of Update for a key the text input does not take: the
\* custom command bound to the key, or the items are filtered
CustomOrFilter(p, mod, digit) ==
    IF p.customCommands = <<mod, digit>>
    THEN Quit(p, IF Len(p.filtered) > 0 THEN ItemAt(p.filtered, p.cursor) ELSE <<>>,
              ActionCustomCommand)
    ELSE filter(p, p.query)

\* key is the key of the last message when it was alt or ctrl with a digit
\* and the keys are watched
Keyed(p, mod, digit) == IF p.watch THEN [p EXCEPT !.key = <<mod, digit>>] ELSE p

\* alt or ctrl with a digit
DigitKey(mod, digit) ==
    /\ picker.pc = "run"
    /\ picker' = IF picker.showHelp THEN Keyed(picker, mod, digit)
                 ELSE IF quickAccessDigit(picker, mod, digit) >= 1
                 THEN QuickAccess(Keyed(picker, mod, digit),
                                  quickAccessDigit(picker, mod, digit))
                 ELSE CustomOrFilter(Keyed(picker, mod, digit), mod, digit)
    /\ UNCHANGED PickerRest

\* tea.WindowSizeMsg: the height less the four lines of hints and input, at
\* least 3, and the items are filtered
WindowSize(h) ==
    /\ picker.pc = "run"
    /\ picker' = filter([Pressed(picker) EXCEPT !.height = IF h - 4 < 3 THEN 3 ELSE h - 4],
                        picker.query)
    /\ UNCHANGED PickerRest

NextPicker ==
    \/ PickerInit
    \/ HelpKey
    \/ QuitKey
    \/ EnterKey
    \/ UpKey
    \/ DownKey
    \/ HalfPageUpKey
    \/ HalfPageDownKey
    \/ \E action \in {ActionKillSession, ActionReset, ActionOpenWindow} : ItemKey(action)
    \/ ClearInputKey
    \/ \E c \in Alphabet : TypeKey(c)
    \/ BackspaceKey
    \/ \E mod \in {"alt", "ctrl"} : \E digit \in Digits : DigitKey(mod, digit)
    \/ \E h \in WindowHeights : WindowSize(h)

SpecPicker == InitPicker /\ [][NextPicker]_vars

\* the pickers of the five items and of the one item that start with the
\* cursor at the end, with the keys watched
InitQuick ==
    /\ picker \in {[p EXCEPT !.watch = TRUE] :
                      p \in {q \in Pickers : q.cursorAtEnd /\ Len(q.items) > 0
                                              /\ \A i \in DOMAIN q.items :
                                                    q.items[i].Name # <<"A">>}}
    /\ fs = RankFs
    /\ clock = 0
    /\ config = <<>> /\ diskCache = NoFile /\ result = <<>>
    /\ last = NoTrace /\ stored = EmptyMap
    /\ valid = Idle /\ names = Idle /\ rank = Idle
    /\ sess = Idle /\ fan = Idle /\ race = Idle /\ sel = Idle /\ red = Idle
    /\ bare = Idle

SpecQuick == InitQuick /\ [][NextPicker]_vars

\* the step is a press of mod+digit with the digit n, on a picker whose
\* quick access modifier is mod
QuickPress(n) ==
    /\ picker'.key # <<>>
    /\ picker'.key[2] = n
    /\ picker'.key[1] = picker.quickAccessModifier

\* what a quick access press of the digit n does: the item n above the
\* cursor is selected and the picker quits when there is such an item, and
\* nothing but the watched key changes when there is none
QuickAccessEffect(n) ==
    IF picker.cursor - n >= 0 /\ picker.cursor - n < Len(picker.filtered)
    THEN /\ picker'.pc = "quit"
         /\ picker'.result = [Selected |-> <<picker.filtered[picker.cursor - n + 1]>>,
                              Action |-> ActionSelect]
    ELSE picker' = [picker EXCEPT !.key = picker'.key]

\* a press of alt+digit or ctrl+digit on a picker whose quick access
\* modifier is "" or "disabled" does not leave the picker with ActionSelect
\* on an item
NoQuickSelect ==
    picker'.key # <<>> /\ ~quickAccessEnabled(picker)
       => ~(picker'.pc = "quit" /\ picker'.result.Action = ActionSelect
                                /\ picker'.result.Selected # <<>>)

\* C37 as stated: modifier+digit n, n from 1 to 9, selects the item at
\* cursor - n and quits when the index exists and does nothing when it does
\* not, in every state of the picker
C37_QuickAccessAlways ==
    [][/\ \A n \in 1..9 : QuickPress(n) => QuickAccessEffect(n)
       /\ NoQuickSelect]_vars

\* C37: while the help overlay is not shown, modifier+digit n, n from 1 to
\* 9, selects the item at cursor - n and quits when the index exists and
\* does nothing when it does not; with the help overlay shown the key
\* changes nothing; with quick access not enabled or "disabled" the key
\* never leaves the picker with ActionSelect on an item
C37_QuickAccessOutsideHelp ==
    [][/\ \A n \in 1..9 :
             QuickPress(n) =>
                IF picker.showHelp THEN picker' = [picker EXCEPT !.key = picker'.key]
                ELSE QuickAccessEffect(n)
       /\ NoQuickSelect]_vars

\* alt+2 has selected the item two above a cursor that was moved up from
\* the end
C37_Witness ==
    /\ picker.pc = "quit"
    /\ picker.key = <<"alt", 2>>
    /\ picker.quickAccessModifier = "alt"
    /\ picker.cursor = 3
    /\ Len(picker.filtered) = 5
    /\ picker.result = [Selected |-> <<picker.filtered[2]>>, Action |-> ActionSelect]

\* alt+9 was pressed where no item is nine above the cursor, and the picker
\* goes on
C37_NoSuchItem ==
    /\ picker.pc = "run"
    /\ ~picker.showHelp
    /\ picker.key = <<"alt", 9>>
    /\ picker.quickAccessModifier = "alt"
    /\ Len(picker.filtered) = 5

\* alt+1 was pressed with quick access disabled, and the picker goes on
C37_DisabledPress ==
    /\ picker.pc = "run"
    /\ ~picker.showHelp
    /\ picker.key = <<"alt", 1>>
    /\ picker.quickAccessModifier = "disabled"
    /\ picker.cursor >= 1

\* alt+1 was pressed with the help overlay shown, quick access on alt and
\* an item above the cursor, and the picker goes on
C37_HelpSwallows ==
    /\ picker.pc = "run"
    /\ picker.showHelp
    /\ picker.key = <<"alt", 1>>
    /\ picker.quickAccessModifier = "alt"
    /\ picker.cursor >= 1 /\ picker.cursor - 1 < Len(picker.filtered)

\* alt+1 was pressed with quick access disabled and a custom command on
\* alt+1: the picker quits with ActionCustomCommand and the item under the
\* cursor
C37_CustomCommandRuns ==
    /\ picker.pc = "quit"
    /\ picker.key = <<"alt", 1>>
    /\ picker.quickAccessModifier = "disabled"
    /\ picker.result.Action = ActionCustomCommand
    /\ picker.result.Selected = <<picker.filtered[picker.cursor + 1]>>

\* the cursor is on an item of the filtered list
CursorOnItem == picker.cursor >= 0 /\ picker.cursor < Len(picker.filtered)

\* the cursor is in the visible window
CursorInWindow ==
    /\ picker.scroll <= picker.cursor
    /\ picker.cursor < picker.scroll + Visible(picker)
    /\ picker.cursor < picker.scroll + picker.height

\* C39: whenever the filtered list is not empty the cursor is on one of its
\* items and inside the visible window, and no result holds an item read
\* outside the list
C39_CursorValidAndVisible ==
    /\ Len(picker.filtered) > 0 => CursorOnItem /\ CursorInWindow
    /\ picker.result.Selected # <<OutOfRange>>

\* the window is three lines high over five items, scrolled down, with the
\* cursor restored from the memory of the empty query to an item that is
\* neither the first nor the last
C39_Witness ==
    /\ picker.pc = "run"
    /\ picker.height = 3
    /\ Len(picker.filtered) = 5
    /\ picker.query = <<>>
    /\ picker.cursorMemory[<<>>] # <<>>
    /\ picker.cursorMemory[<<"a">>] # <<>>
    /\ picker.scroll > 0
    /\ picker.cursor \in {1, 2, 3}

\* the query matches nothing: the filtered list is empty and the cursor is 0
C39_EmptyList ==
    /\ picker.pc = "run"
    /\ picker.query = <<"z">>
    /\ picker.filtered = <<>>
    /\ picker.cursor = 0 /\ picker.scroll = 0
    /\ Len(picker.items) = 5

====
